---- MODULE Spec2Model ----
(***************************************************************************)
(* Moodboard canvas core: the pan/zoom transform (useCanvasTransform),     *)
(* the alignment engine (useAlignmentGuides.calcSnap), the card gestures   *)
(* (CanvasCard), and the board state held by App / InfiniteCanvas.         *)
(*                                                                         *)
(* Numbers.  The transform works on JavaScript numbers; it is modelled in  *)
(* exact rational arithmetic, a rational being a pair <<n, d>> with d > 0  *)
(* in lowest terms.  Rounding error of IEEE doubles is outside the model.  *)
(* Canvas geometry (rects, snaps, guides) is modelled in integers that     *)
(* count HALF canvas units, so that width / 2 and half-unit pointer        *)
(* positions are exact; U(n) converts whole units to that representation.  *)
(***************************************************************************)
EXTENDS Integers, Sequences, FiniteSets, Bags, TLC

VARIABLES
    transform,      \* useCanvasTransform: state { x, y, scale } (rationals)
    isPanning,      \* useCanvasTransform: isPanning ref
    lastMouse,      \* useCanvasTransform: lastMouse ref { x, y }
    containerRect,  \* el.getBoundingClientRect(): { left, top, width, height }
    mounted,        \* useCanvasTransform: containerRef.current is an element
    budget,         \* number of user events still allowed (bound)
    allRects,       \* useAlignmentGuides: argument allRects
    excludeIndex,   \* useAlignmentGuides: argument excludeIndex (0-based, -1 = none)
    draggingRect,   \* calcSnap: argument of the last call
    snapResult,     \* calcSnap: value returned by the last call
    currentWeek,    \* App: weekStr, derived from currentDate
    images,         \* App: images, the item list
    zIndexMap,      \* App: zIndexMap { counter, map }
    saveTimer,      \* useDebouncedSave: the pending timer and its arguments
    uploading,      \* App: uploading
    language,       \* App: language
    retagging,      \* App: the toggleLanguage call awaiting its retag requests
    draggingId,     \* InfiniteCanvas: draggingId
    activeGuides,   \* InfiniteCanvas: activeGuides
    rnd,            \* the gesture react-rnd is in, and its raw rect
    dragPos,        \* CanvasCard: dragPos ref of the card in the gesture
    db,             \* server: rows of the images table
    nextId,         \* server: next serial id
    net,            \* HTTP requests and responses in flight (a bag)
    frontLog,       \* history: the id last brought to front
    tick,           \* history: the gesture in progress, its baseline and last tick
    unsaved,        \* history: ids whose last committed geometry was not sent
    lastOp          \* history: the last handler that ran, with its inputs

tvars == <<transform, isPanning, lastMouse, containerRect, mounted>>
svars == <<allRects, excludeIndex, draggingRect, snapResult>>
uivars == <<uploading, language, retagging>>
savevars == <<saveTimer, unsaved>>
appvars == <<currentWeek, images, zIndexMap, savevars, uivars>>
canvasvars == <<draggingId, activeGuides, rnd, dragPos>>
servervars == <<db, nextId, net>>
bvars == <<appvars, canvasvars, servervars, frontLog, tick>>

----------------------------------------------------------------------------
(* Exact rational arithmetic                                               *)

Abs(n) == IF n < 0 THEN -n ELSE n

RECURSIVE GCD(_, _)
GCD(a, b) == IF b = 0 THEN a ELSE GCD(b, a % b)

\* the rational n / d (d # 0) in lowest terms with a positive denominator
Rat(n, d) ==
    LET s == IF d < 0 THEN -1 ELSE 1
        g == GCD(Abs(n), Abs(d))
    IN  <<(s * n) \div g, (s * d) \div g>>

RInt(n) == <<n, 1>>
RAdd(a, b) == Rat(a[1] * b[2] + b[1] * a[2], a[2] * b[2])
RSub(a, b) == Rat(a[1] * b[2] - b[1] * a[2], a[2] * b[2])
RMul(a, b) == Rat(a[1] * b[1], a[2] * b[2])
RDiv(a, b) == Rat(a[1] * b[2], a[2] * b[1])
RNeg(a) == <<-a[1], a[2]>>
RLt(a, b) == a[1] * b[2] < b[1] * a[2]
RLe(a, b) == a[1] * b[2] <= b[1] * a[2]
\* Math.min / Math.max on two numbers
RMin(a, b) == IF RLe(a, b) THEN a ELSE b
RMax(a, b) == IF RLe(a, b) THEN b ELSE a

----------------------------------------------------------------------------
(* Transform engine: useCanvasTransform                                    *)

MIN_SCALE == Rat(25, 100)
MAX_SCALE == Rat(2, 1)
ZOOM_SENSITIVITY == Rat(2, 1000)

\* bound on the number of pan / zoom / reset events of one behaviour of the
\* transform engine
MaxSteps == 4

\* screen points (clientX, clientY) the pointer events are drawn from
ScreenPoints == {<<500, 300>>, <<640, 360>>}
\* wheel deltaY values: with and without the pinch flag they give the zoom
\* factors 1.5, 2 (zoom in) and 0.5, 0 (zoom out, the last below the clamp)
WheelDeltas == {-250, 250}
\* container origins: the canvas sits below the header
ContainerRects ==
    {[left |-> 0, top |-> 0, width |-> 1280, height |-> 720],
     [left |-> 0, top |-> 48, width |-> 1280, height |-> 672]}

WheelEvents ==
    {[clientX |-> p[1], clientY |-> p[2], deltaY |-> d, ctrlKey |-> c] :
        p \in ScreenPoints, d \in WheelDeltas, c \in BOOLEAN}

InitialTransform == [x |-> RInt(0), y |-> RInt(0), scale |-> RInt(1)]

\* the clamp of handleWheel: Math.min(MAX_SCALE, Math.max(MIN_SCALE, s))
ClampScaleNoMax(s) == RMax(MIN_SCALE, s)
ClampScale(s) == RMin(MAX_SCALE, RMax(MIN_SCALE, s))

\* scaleRatio of handleWheel
ScaleRatioUnclamped(prev, newScale, delta) == RAdd(RInt(1), delta)
ScaleRatio(prev, newScale, delta) == RDiv(newScale, prev.scale)

\* the updater passed to setTransform by handleWheel
WheelTransform(prev, e, rect) ==
    LET isPinch == e.ctrlKey
        sensitivity == IF isPinch THEN RMul(ZOOM_SENSITIVITY, RInt(2))
                       ELSE ZOOM_SENSITIVITY
        delta == RMul(RInt(-e.deltaY), sensitivity)
        newScale == ClampScale(RMul(prev.scale, RAdd(RInt(1), delta)))
        cursorX == RInt(e.clientX - rect.left)
        cursorY == RInt(e.clientY - rect.top)
        scaleRatio == ScaleRatio(prev, newScale, delta)
        newX == RSub(cursorX, RMul(RSub(cursorX, prev.x), scaleRatio))
        newY == RSub(cursorY, RMul(RSub(cursorY, prev.y), scaleRatio))
    IN  [x |-> newX, y |-> newY, scale |-> newScale]

\* screenToCanvas(screenX, screenY, containerRect) under transform t, for
\* rational screen coordinates
ScreenToCanvasScaleFirst(sx, sy, rect, t) ==
    [x |-> RSub(RDiv(RSub(sx, RInt(rect.left)), t.scale), t.x),
     y |-> RSub(RDiv(RSub(sy, RInt(rect.top)), t.scale), t.y)]
ScreenToCanvasR(sx, sy, rect, t) ==
    [x |-> RDiv(RSub(RSub(sx, RInt(rect.left)), t.x), t.scale),
     y |-> RDiv(RSub(RSub(sy, RInt(rect.top)), t.y), t.scale)]

\* screenToCanvas at a pointer position (integer client coordinates)
ScreenToCanvas(screenX, screenY, rect, t) ==
    ScreenToCanvasR(RInt(screenX), RInt(screenY), rect, t)

\* where the transform layer renders canvas point P on the screen: the layer
\* sits at the container's origin with transform-origin 0 0 and
\* `translate(x, y) scale(scale)`
CanvasToScreen(P, rect, t) ==
    [x |-> RAdd(RInt(rect.left), RAdd(t.x, RMul(t.scale, P.x))),
     y |-> RAdd(RInt(rect.top), RAdd(t.y, RMul(t.scale, P.y)))]

\* onMouseDown on the container; onBackground is e.target === e.currentTarget
OnMouseDown(p, onBackground) ==
    /\ budget > 0
    /\ IF onBackground
       THEN /\ isPanning' = TRUE
            /\ lastMouse' = [x |-> p[1], y |-> p[2]]
       ELSE UNCHANGED <<isPanning, lastMouse>>
    /\ budget' = budget - 1
    /\ lastOp' = [op |-> "mousedown", p |-> p, onBackground |-> onBackground]
    /\ UNCHANGED <<transform, containerRect, mounted>>
    /\ UNCHANGED <<svars, bvars>>

\* onMouseMove on the container
OnMouseMoveUnguarded(p) ==
    /\ budget > 0
    /\ LET dx == p[1] - lastMouse.x
           dy == p[2] - lastMouse.y
       IN  /\ lastMouse' = [x |-> p[1], y |-> p[2]]
           /\ transform' = [transform EXCEPT !.x = RAdd(@, RInt(dx)),
                                             !.y = RAdd(@, RInt(dy))]
    /\ budget' = budget - 1
    /\ lastOp' = [op |-> "mousemove", p |-> p, prev |-> transform,
                  wasPanning |-> isPanning, prevMouse |-> lastMouse]
    /\ UNCHANGED <<isPanning, containerRect, mounted>>
    /\ UNCHANGED <<svars, bvars>>
OnMouseMove(p) ==
    /\ budget > 0
    /\ IF isPanning
       THEN LET dx == p[1] - lastMouse.x
                dy == p[2] - lastMouse.y
            IN  /\ lastMouse' = [x |-> p[1], y |-> p[2]]
                /\ transform' = [transform EXCEPT !.x = RAdd(@, RInt(dx)),
                                                  !.y = RAdd(@, RInt(dy))]
       ELSE UNCHANGED <<lastMouse, transform>>
    /\ budget' = budget - 1
    /\ lastOp' = [op |-> "mousemove", p |-> p, prev |-> transform,
                  wasPanning |-> isPanning, prevMouse |-> lastMouse]
    /\ UNCHANGED <<isPanning, containerRect, mounted>>
    /\ UNCHANGED <<svars, bvars>>

\* onMouseUp, also bound to onMouseLeave
OnMouseUp ==
    /\ isPanning
    /\ isPanning' = FALSE
    /\ lastOp' = [op |-> "mouseup"]
    /\ UNCHANGED <<transform, lastMouse, containerRect, mounted, budget>>
    /\ UNCHANGED <<svars, bvars>>

\* the non-passive wheel listener, attached to the container element
HandleWheel(e) ==
    /\ mounted
    /\ budget > 0
    /\ transform' = WheelTransform(transform, e, containerRect)
    /\ budget' = budget - 1
    /\ lastOp' = [op |-> "wheel", e |-> e, prev |-> transform]
    /\ UNCHANGED <<isPanning, lastMouse, containerRect, mounted>>
    /\ UNCHANGED <<svars, bvars>>

\* resetView (the zoom indicator button)
ResetView ==
    /\ budget > 0
    /\ transform' = InitialTransform
    /\ budget' = budget - 1
    /\ lastOp' = [op |-> "reset", prev |-> transform]
    /\ UNCHANGED <<isPanning, lastMouse, containerRect, mounted>>
    /\ UNCHANGED <<svars, bvars>>

----------------------------------------------------------------------------
(* Alignment engine: useAlignmentGuides                                    *)
(* All coordinates below count half canvas units.                          *)

\* n whole canvas units
U(n) == 2 * n

SNAP_THRESHOLD == 6

\* number | null
Null == <<>>
Some(v) == <<v>>

Rect(x, y, w, h) == [x |-> U(x), y |-> U(y), width |-> U(w), height |-> U(h)]

\* getEdges(r); widths and heights are whole units, so the halves are exact
GetEdges(r) ==
    [left |-> r.x, right |-> r.x + r.width, centerX |-> r.x + r.width \div 2,
     top |-> r.y, bottom |-> r.y + r.height, centerY |-> r.y + r.height \div 2]

\* allRects.filter((_, i) => i !== excludeIndex)
RECURSIVE FilterByIndex(_, _, _)
FilterByIndex(rects, i, exclude) ==
    IF i > Len(rects) THEN <<>>
    ELSE (IF i - 1 # exclude THEN <<rects[i]>> ELSE <<>>)
            \o FilterByIndex(rects, i + 1, exclude)

OthersNotExcluded(rects, exclude) == rects
OthersByValue(rects, exclude) ==
    IF exclude >= 0 /\ exclude < Len(rects)
    THEN SelectSeq(rects, LAMBDA r : r # rects[exclude + 1])
    ELSE rects
Others(rects, exclude) == FilterByIndex(rects, 1, exclude)

\* vChecks: the nine [dragVal, otherVal] pairs of the x axis, in source order
VChecks(drag, o) ==
    << <<drag.left, o.left>>, <<drag.left, o.right>>, <<drag.left, o.centerX>>,
       <<drag.right, o.left>>, <<drag.right, o.right>>, <<drag.right, o.centerX>>,
       <<drag.centerX, o.centerX>>, <<drag.centerX, o.left>>, <<drag.centerX, o.right>> >>

\* hChecks: the nine [dragVal, otherVal] pairs of the y axis, in source order
HChecks(drag, o) ==
    << <<drag.top, o.top>>, <<drag.top, o.bottom>>, <<drag.top, o.centerY>>,
       <<drag.bottom, o.top>>, <<drag.bottom, o.bottom>>, <<drag.bottom, o.centerY>>,
       <<drag.centerY, o.centerY>>, <<drag.centerY, o.top>>, <<drag.centerY, o.bottom>> >>

\* the test `d < SNAP_THRESHOLD && d < bestDx` of both check loops
QualifiesWide(d, best) == d < U(SNAP_THRESHOLD + 1) /\ d < best
QualifiesInclusive(d, best) == d <= U(SNAP_THRESHOLD) /\ d < best
QualifiesLastWins(d, best) == d < U(SNAP_THRESHOLD) /\ d <= best
Qualifies(d, best) == d < U(SNAP_THRESHOLD) /\ d < best

\* the shift `otherVal - dragVal` added to the dragging rect's coordinate
SnapShiftNegated(dragVal, otherVal) == dragVal - otherVal
SnapShift(dragVal, otherVal) == otherVal - dragVal

\* one iteration of a check loop; st = [best, snap, pos] is (bestDx, snapX)
\* or (bestDy, snapY), and pos the otherVal of the pair that set the snap
CheckStep(st, pair, base) ==
    LET d == Abs(pair[1] - pair[2])
    IN  IF Qualifies(d, st.best)
        THEN [best |-> d, snap |-> Some(base + SnapShift(pair[1], pair[2])),
              pos |-> Some(pair[2])]
        ELSE st

RECURSIVE CheckLoop(_, _, _, _)
CheckLoop(st, checks, k, base) ==
    IF k > Len(checks) THEN st
    ELSE CheckLoop(CheckStep(st, checks[k], base), checks, k + 1, base)

\* `for (const other of others)`: the x axis carries (bestDx, snapX), the y
\* axis (bestDy, snapY); the two are independent, so each axis is folded on
\* its own.  The list newGuides built inside the loop is never returned.
RECURSIVE SnapLoopX(_, _, _, _)
SnapLoopX(st, others, i, dr) ==
    IF i > Len(others) THEN st
    ELSE SnapLoopX(CheckLoop(st, VChecks(GetEdges(dr), GetEdges(others[i])), 1, dr.x),
                   others, i + 1, dr)

RECURSIVE SnapLoopY(_, _, _, _)
SnapLoopY(st, others, i, dr) ==
    IF i > Len(others) THEN st
    ELSE SnapLoopY(CheckLoop(st, HChecks(GetEdges(dr), GetEdges(others[i])), 1, dr.y),
                   others, i + 1, dr)

InitialBest == [best |-> U(SNAP_THRESHOLD + 1), snap |-> Null, pos |-> Null]

\* the vertical guides pushed for one other rect: v over [o.left, o.right, o.centerX]
VGuidesForLeftOnly(drag2, o) ==
    LET vVals == <<o.left, o.right, o.centerX>>
        G(v) == IF Abs(drag2.left - v) < U(1)
                THEN << [type |-> "vertical", position |-> v,
                         start |-> IF drag2.top < o.top THEN drag2.top ELSE o.top,
                         end |-> IF drag2.bottom > o.bottom THEN drag2.bottom ELSE o.bottom] >>
                ELSE <<>>
    IN  G(vVals[1]) \o G(vVals[2]) \o G(vVals[3])
VGuidesFor(drag2, o) ==
    LET vVals == <<o.left, o.right, o.centerX>>
        G(v) == IF \/ Abs(drag2.left - v) < U(1)
                   \/ Abs(drag2.right - v) < U(1)
                   \/ Abs(drag2.centerX - v) < U(1)
                THEN << [type |-> "vertical", position |-> v,
                         start |-> IF drag2.top < o.top THEN drag2.top ELSE o.top,
                         end |-> IF drag2.bottom > o.bottom THEN drag2.bottom ELSE o.bottom] >>
                ELSE <<>>
    IN  G(vVals[1]) \o G(vVals[2]) \o G(vVals[3])

\* the horizontal guides pushed for one other rect: v over [o.top, o.bottom, o.centerY]
HGuidesFor(drag2, o) ==
    LET hVals == <<o.top, o.bottom, o.centerY>>
        G(v) == IF \/ Abs(drag2.top - v) < U(1)
                   \/ Abs(drag2.bottom - v) < U(1)
                   \/ Abs(drag2.centerY - v) < U(1)
                THEN << [type |-> "horizontal", position |-> v,
                         start |-> IF drag2.left < o.left THEN drag2.left ELSE o.left,
                         end |-> IF drag2.right > o.right THEN drag2.right ELSE o.right] >>
                ELSE <<>>
    IN  G(hVals[1]) \o G(hVals[2]) \o G(hVals[3])

RECURSIVE VGuides(_, _, _)
VGuides(drag2, others, i) ==
    IF i > Len(others) THEN <<>>
    ELSE VGuidesFor(drag2, GetEdges(others[i])) \o VGuides(drag2, others, i + 1)

RECURSIVE HGuides(_, _, _)
HGuides(drag2, others, i) ==
    IF i > Len(others) THEN <<>>
    ELSE HGuidesFor(drag2, GetEdges(others[i])) \o HGuides(drag2, others, i + 1)

\* "Rebuild guides cleanly": finalGuides
FinalGuidesRaw(others, dr, snapX, snapY) ==
    (IF snapX # Null THEN VGuides(GetEdges(dr), others, 1) ELSE <<>>)
    \o
    (IF snapY # Null THEN HGuides(GetEdges(dr), others, 1) ELSE <<>>)
FinalGuides(others, dr, snapX, snapY) ==
    (IF snapX # Null
     THEN VGuides(GetEdges([dr EXCEPT !.x = snapX[1]]), others, 1) ELSE <<>>)
    \o
    (IF snapY # Null
     THEN HGuides(GetEdges([dr EXCEPT !.y = snapY[1]]), others, 1) ELSE <<>>)

\* calcSnap(draggingRect) of useAlignmentGuides(rects, exclude)
CalcSnap(rects, exclude, dr) ==
    LET others == Others(rects, exclude)
    IN  IF Len(others) = 0
        THEN [snapX |-> Null, snapY |-> Null, guides |-> <<>>]
        ELSE LET sx == SnapLoopX(InitialBest, others, 1, dr)
                 sy == SnapLoopY(InitialBest, others, 1, dr)
             IN  [snapX |-> sx.snap, snapY |-> sy.snap,
                  guides |-> FinalGuides(others, dr, sx.snap, sy.snap)]

\* bound on the length of allRects
MaxRects == 2

\* the rects on the board: A of the spec's scenario, B three units right
\* of where a card touching A's right edge by three units ends, C below A
\* with an odd width, D smaller and far from the others
RectPool ==
    {Rect(100, 100, 280, 200), Rect(666, 100, 280, 200),
     Rect(100, 306, 281, 150), Rect(1200, 900, 120, 80)}

\* the raw rects a drag or resize tick passes to calcSnap (half units)
DragXs == {U(100), U(105) + 1, U(106), U(106) + 1, U(383), U(97), U(1500)}
DragYs == {U(100), U(105), U(94), U(105) + 1, U(106), U(2000)}
DragSizes == {<<U(280), U(200)>>, <<U(281), U(120)>>}
DragRects ==
    {[x |-> x, y |-> y, width |-> sz[1], height |-> sz[2]] :
        x \in DragXs, y \in DragYs, sz \in DragSizes}

RECURSIVE SeqsUpTo(_, _)
SeqsUpTo(S, n) ==
    IF n = 0 THEN {<<>>}
    ELSE LET shorter == SeqsUpTo(S, n - 1)
         IN  shorter \cup {Append(q, e) : q \in {t \in shorter : Len(t) = n - 1}, e \in S}

\* one call of calcSnap
CalcSnapCall(dr) ==
    /\ draggingRect' = Some(dr)
    /\ snapResult' = Some(CalcSnap(allRects, excludeIndex, dr))
    /\ lastOp' = [op |-> "calcSnap"]
    /\ UNCHANGED <<allRects, excludeIndex>>
    /\ UNCHANGED <<tvars, budget, bvars>>

----------------------------------------------------------------------------
(* Board: App (item list, z-order, week loading, uploads), InfiniteCanvas  *)
(* (gesture wiring), CanvasCard (drag / resize commit) and the HTTP server *)
(* behind api.ts.  Item geometry is stored in whole canvas units, as the   *)
(* integer columns of the images table.                                    *)

\* bound on the number of user events of one behaviour of the board:
\* navigations, drops, deletes, clears, gesture starts, pans, zooms, resets
MaxEvents == 3

Weeks == {"2026-W08", "2026-W09"}

\* rows of the images table left by earlier sessions: two cards of week 8
\* with the same geometry
InitialRows ==
    {[id |-> 1, weekStr |-> "2026-W08", x |-> 100, y |-> 100, width |-> 280, height |-> 200,
      tags |-> "zh"],
     [id |-> 2, weekStr |-> "2026-W08", x |-> 100, y |-> 100, width |-> 280, height |-> 200,
      tags |-> "zh"]}

\* screen points of the board's pointer events: drops, mouse down, mouse move
DropPoints == {<<500, 300>>}
\* raw positions (half units) react-rnd reports during a drag
DragPoints == {<<U(103), U(105)>>, <<U(500) + 1, U(400)>>}
\* raw rects (half units) react-rnd reports during a resize
ResizeRects == {[x |-> U(103) + 1, y |-> U(105), width |-> U(200) + 1, height |-> U(120)]}
\* wheel events of the board: a pinch zoom-in by the factor 2
BoardWheelEvents == {[clientX |-> 500, clientY |-> 300, deltaY |-> -250, ctrlKey |-> TRUE]}

\* Math.round of a rational: floor(q + 1/2)
RRound(q) == (2 * q[1] + q[2]) \div (2 * q[2])
\* Math.round of a value counted in half units, in whole units
RoundHalf(v) == (v + 1) \div 2

\* zIndexMap state of App: useState initial value and the reset of fetchWeekData
EmptyMap == [j \in {} |-> 0]
InitialZIndexMap == [counter |-> 1, map |-> EmptyMap]

\* the updater of handleBringToFront
BringToFrontNoIncrement(prev, id) ==
    LET next == prev.counter
    IN  [counter |-> next,
         map |-> [j \in DOMAIN prev.map \cup {id} |-> IF j = id THEN next ELSE prev.map[j]]]
BringToFrontAlone(prev, id) ==
    LET next == prev.counter + 1
    IN  [counter |-> next, map |-> [j \in {id} |-> next]]
BringToFront(prev, id) ==
    LET next == prev.counter + 1
    IN  [counter |-> next,
         map |-> [j \in DOMAIN prev.map \cup {id} |-> IF j = id THEN next ELSE prev.map[j]]]

\* zIndex={zIndexMap[img.id] || 1}
ZIndex(map, id) == IF id \in DOMAIN map /\ map[id] # 0 THEN map[id] ELSE 1

Ids(imgs) == {imgs[i].id : i \in 1 .. Len(imgs)}

\* images.findIndex(img => img.id === id), 0-based, -1 when absent
FindIndex(imgs, id) ==
    IF id \in Ids(imgs)
    THEN (CHOOSE i \in 1 .. Len(imgs) :
            imgs[i].id = id /\ \A j \in 1 .. (i - 1) : imgs[j].id # id) - 1
    ELSE -1

\* imageRects of InfiniteCanvas, in half units
ImageRects(imgs) ==
    [i \in 1 .. Len(imgs) |->
        [x |-> U(imgs[i].x), y |-> U(imgs[i].y), width |-> U(imgs[i].width),
         height |-> U(IF imgs[i].height # 0 THEN imgs[i].height ELSE 200)]]

\* draggingIndex of InfiniteCanvas
DraggingIndex == IF draggingId # Null THEN FindIndex(images, draggingId[1]) ELSE -1

ImageOf(imgs, id) == imgs[FindIndex(imgs, id) + 1]

\* CanvasCard: cardWidth, cardHeight ('auto' is 0 here), heightNum
CardWidth(img) == img.width
CardHeight(img) == img.height
HeightNum(img) == IF img.height # 0 THEN img.height ELSE 200

\* the dragPos ref is written at every drag start before it is read, so
\* outside a drag its value is dead; it is kept at one value there
NoDragPos == [x |-> 0, y |-> 0]

\* history value of the handlers no statement refers to
OtherOp == [op |-> "other"]

RndIdle == [kind |-> "idle", id |-> 0, x |-> 0, y |-> 0, width |-> 0, height |-> 0]

\* a card whose item leaves the list unmounts, which ends its gesture
\* without a stop callback
RndAfter(newImages) ==
    IF rnd.kind # "idle" /\ rnd.id \notin Ids(newImages) THEN RndIdle ELSE rnd

DragPosAfter(newImages) ==
    IF RndAfter(newImages).kind = "drag" THEN dragPos ELSE NoDragPos

\* history of the gesture in progress: the card's position at its start and
\* the candidate rect and snap of its last tick (none before the first)
NoTick == [base |-> [x |-> 0, y |-> 0], last |-> Null]
TickStart(img) == [base |-> [x |-> U(img.x), y |-> U(img.y)], last |-> Null]
TickOf(raw, rect, result) ==
    [tick EXCEPT !.last = Some([raw |-> raw, rect |-> rect, snapX |-> result.snapX,
                                snapY |-> result.snapY])]
TickAfter(newImages) == IF RndAfter(newImages).kind = "idle" THEN NoTick ELSE tick

\* tags stands for the list of tags of an item: the language they are in
NoImg == [id |-> 0, weekStr |-> "", x |-> 0, y |-> 0, width |-> 0, height |-> 0,
          tags |-> ""]

\* a request issued by api.ts
Request(kind, week, img) ==
    [kind |-> kind, phase |-> "req", weekStr |-> week, img |-> img, data |-> <<>>]

\* the messages in flight
Msgs == BagToSet(net)
Send(m) == net (+) SetToBag({m})
Receive(m) == net (-) SetToBag({m})

\* rows of a set ordered by id
RECURSIVE RowsById(_)
RowsById(rows) ==
    IF rows = {} THEN <<>>
    ELSE LET r == CHOOSE r \in rows : \A q \in rows : r.id <= q.id
         IN  <<r>> \o RowsById(rows \ {r})

\* --- App ----------------------------------------------------------------

\* setCurrentDate to a date of another week; the effect calls fetchWeekData
Navigate(w) ==
    /\ rnd.kind = "idle"
    /\ w # currentWeek
    /\ budget > 0
    /\ currentWeek' = w
    /\ net' = Send(Request("getWeek", w, NoImg))
    /\ budget' = budget - 1
    /\ lastOp' = OtherOp
    /\ UNCHANGED <<uivars, images, zIndexMap, savevars, canvasvars, db, nextId, frontLog, tick>>
    /\ UNCHANGED <<tvars, svars>>

\* fetchWeekData after `await api.getWeekData(weekStr)` resolved
FetchResolve(m) ==
    /\ m.kind = "getWeek" /\ m.phase = "ok"
    /\ images' = m.data
    /\ zIndexMap' = InitialZIndexMap
    /\ rnd' = RndAfter(m.data)
    /\ dragPos' = DragPosAfter(m.data)
    /\ net' = Receive(m)
    /\ frontLog' = [frontLog EXCEPT !.sinceLoad = FALSE]
    /\ tick' = TickAfter(m.data)
    /\ lastOp' = [op |-> "fetchResolve"]
    /\ UNCHANGED <<uivars, currentWeek, savevars, draggingId, activeGuides, db, nextId>>
    /\ UNCHANGED <<tvars, svars, budget>>

\* handleUploadFile after `await api.uploadImage(...)` rejected: a toast
UploadRejectRetries(m) ==
    /\ m.kind = "upload" /\ m.phase = "err"
    /\ net' = Receive(m) (+) SetToBag({Request("upload", m.weekStr, [m.img EXCEPT !.id = 0])})
    /\ lastOp' = [op |-> "uploadReject"]
    /\ uploading' = FALSE
    /\ UNCHANGED <<currentWeek, images, zIndexMap, savevars, language, retagging>>
    /\ UNCHANGED <<canvasvars, db, nextId, frontLog, tick>>
    /\ UNCHANGED <<tvars, svars, budget>>
UploadReject(m) ==
    /\ m.kind = "upload" /\ m.phase = "err"
    /\ net' = Receive(m)
    /\ lastOp' = [op |-> "uploadReject"]
    /\ uploading' = FALSE
    /\ UNCHANGED <<currentWeek, images, zIndexMap, savevars, language, retagging>>
    /\ UNCHANGED <<canvasvars, db, nextId, frontLog, tick>>
    /\ UNCHANGED <<tvars, svars, budget>>

\* --- upload routes: paste, drop, file input -----------------------------

\* items of a paste (DataTransferItem) and files of a drop or of the file
\* input (File): the kind, and the class of the MIME type
\* and whether its size exceeds 20MB
ImageFile == [kind |-> "file", type |-> "image", big |-> FALSE]
VideoFile == [kind |-> "file", type |-> "video", big |-> FALSE]
LargeImageFile == [kind |-> "file", type |-> "image", big |-> TRUE]
PdfFile == [kind |-> "file", type |-> "pdf", big |-> FALSE]
TextItem == [kind |-> "string", type |-> "text", big |-> FALSE]

\* bound on the number of items of one paste, drop or file selection
MaxItems == 2

ItemPool == {ImageFile, VideoFile, LargeImageFile, PdfFile, TextItem}
FilePool == {ImageFile, VideoFile, LargeImageFile, PdfFile}

\* type.startsWith("image/") || type.startsWith("video/")
IsMedia(f) == f.type \in {"image", "video"}

\* item.getAsFile(): null for an item that is not a file
GetAsFile(item) == IF item.kind = "file" THEN Some(item) ELSE Null

\* the test of the loop of handlePaste
PasteMatchesMediaOnly(item) == IsMedia(item)
PasteMatches(item) == item.kind = "file" \/ IsMedia(item)

\* the loop of handlePaste from item i on: the position of the item handed
\* to onUploadFile, 0 when the loop ends without one
RECURSIVE PasteLoop(_, _)
PasteLoop(items, i) ==
    IF i > Len(items) THEN 0
    ELSE IF PasteMatches(items[i]) /\ GetAsFile(items[i]) # Null THEN i
    ELSE PasteLoop(items, i + 1)

\* files[0] of handleDrop and handleFileSelect: its position, 0 when absent
FirstFile(files) == IF Len(files) = 0 THEN 0 ELSE 1

\* the placement of a card centered on a canvas point: pos - (140, 100)
CenterOffsetAdded(pos) == [x |-> RAdd(pos.x, RInt(140)), y |-> RAdd(pos.y, RInt(100))]
CenterOffset(pos) == [x |-> RSub(pos.x, RInt(140)), y |-> RSub(pos.y, RInt(100))]

\* getViewportCenter
ViewportCenterUnmountedOffset == [x |-> RInt(-140), y |-> RInt(-100)]
ViewportCenterUnmounted == [x |-> RInt(0), y |-> RInt(0)]
GetViewportCenter ==
    IF ~mounted THEN ViewportCenterUnmounted
    ELSE LET rect == containerRect
             centerScreenX == rect.left + rect.width \div 2
             centerScreenY == rect.top + rect.height \div 2
         IN  CenterOffset(ScreenToCanvas(centerScreenX, centerScreenY, rect, transform))

\* api.uploadImage(weekStr, 1, file, language, position) up to its await:
\* the POST it issues, or the rejection it returns for a file over 20MB
\* without issuing one
UploadImage(week, file, position) ==
    IF file.big
    THEN [Request("upload", week, position) EXCEPT !.phase = "err"]
    ELSE Request("upload", week, position)

\* handleUploadFile(file, canvasX, canvasY) up to the await: the messages in
\* flight after it; a file of another type only raises a toast
HandleUploadFile(file, canvasX, canvasY) ==
    IF ~IsMedia(file) THEN net
    ELSE Send(UploadImage(currentWeek, file,
                [NoImg EXCEPT !.x = RRound(canvasX), !.y = RRound(canvasY),
                              !.tags = language]))

\* handleUploadFile up to the await: setUploading(true) once the type passed
UploadingAfter(file) == IF IsMedia(file) THEN TRUE ELSE uploading

\* history of a route: the item handed to onUploadFile and its placement
Forwarded(i, pos) == Some([item |-> i, x |-> pos.x, y |-> pos.y])

\* the window's paste listener
HandlePaste(items) ==
    /\ budget > 0
    /\ LET i == PasteLoop(items, 1)
           center == GetViewportCenter
       IN  IF i = 0
           THEN /\ net' = net
                /\ uploading' = uploading
                /\ lastOp' = [op |-> "paste", items |-> items, forwarded |-> Null]
           ELSE /\ net' = HandleUploadFile(items[i], center.x, center.y)
                /\ uploading' = UploadingAfter(items[i])
                /\ lastOp' = [op |-> "paste", items |-> items,
                              forwarded |-> Forwarded(i, center)]
    /\ budget' = budget - 1
    /\ UNCHANGED <<currentWeek, images, zIndexMap, savevars, language, retagging>>
    /\ UNCHANGED <<canvasvars, db, nextId, frontLog, tick>>
    /\ UNCHANGED <<tvars, svars>>

\* handleDrop -> uploadAtScreenPoint -> handleUploadFile, up to the await
HandleDrop(p, files) ==
    /\ rnd.kind = "idle"
    /\ budget > 0
    /\ LET i == FirstFile(files)
       IN  IF i = 0 \/ ~mounted
           THEN /\ net' = net
                /\ uploading' = uploading
                /\ lastOp' = [op |-> "drop", items |-> files, p |-> p, forwarded |-> Null]
           ELSE LET pos == CenterOffset(ScreenToCanvas(p[1], p[2], containerRect, transform))
                IN  /\ net' = HandleUploadFile(files[i], pos.x, pos.y)
                    /\ uploading' = UploadingAfter(files[i])
                    /\ lastOp' = [op |-> "drop", items |-> files, p |-> p,
                                  forwarded |-> Forwarded(i, pos)]
    /\ budget' = budget - 1
    /\ UNCHANGED <<currentWeek, images, zIndexMap, savevars, language, retagging>>
    /\ UNCHANGED <<canvasvars, db, nextId, frontLog, tick>>
    /\ UNCHANGED <<tvars, svars>>

\* handleFileSelect: the file input of the empty state
HandleFileSelect(files) ==
    /\ Len(images) = 0
    /\ budget > 0
    /\ LET i == FirstFile(files)
           center == GetViewportCenter
       IN  IF i = 0
           THEN /\ net' = net
                /\ uploading' = uploading
                /\ lastOp' = [op |-> "browse", items |-> files, forwarded |-> Null]
           ELSE /\ net' = HandleUploadFile(files[i], center.x, center.y)
                /\ uploading' = UploadingAfter(files[i])
                /\ lastOp' = [op |-> "browse", items |-> files,
                              forwarded |-> Forwarded(i, center)]
    /\ budget' = budget - 1
    /\ UNCHANGED <<currentWeek, images, zIndexMap, savevars, language, retagging>>
    /\ UNCHANGED <<canvasvars, db, nextId, frontLog, tick>>
    /\ UNCHANGED <<tvars, svars>>

\* handleUploadFile after `await api.uploadImage(...)` resolved
UploadResolveReplaces(m) ==
    /\ m.kind = "upload" /\ m.phase = "ok"
    /\ images' = <<m.img>>
    /\ net' = Receive(m)
    /\ lastOp' = [op |-> "uploadResolve"]
    /\ uploading' = FALSE
    /\ UNCHANGED <<language, retagging>>
    /\ UNCHANGED <<currentWeek, zIndexMap, savevars, canvasvars, db, nextId, frontLog, tick>>
    /\ UNCHANGED <<tvars, svars, budget>>
UploadResolve(m) ==
    /\ m.kind = "upload" /\ m.phase = "ok"
    /\ images' = Append(images, m.img)
    /\ net' = Receive(m)
    /\ lastOp' = [op |-> "uploadResolve"]
    /\ uploading' = FALSE
    /\ UNCHANGED <<language, retagging>>
    /\ UNCHANGED <<currentWeek, zIndexMap, savevars, canvasvars, db, nextId, frontLog, tick>>
    /\ UNCHANGED <<tvars, svars, budget>>

\* handleDeleteImage up to the await (the card's confirm dialog)
HandleDeleteImage(id) ==
    /\ rnd.kind = "idle"
    /\ id \in Ids(images)
    /\ budget > 0
    /\ net' = Send(Request("delete", "", [NoImg EXCEPT !.id = id]))
    /\ budget' = budget - 1
    /\ lastOp' = OtherOp
    /\ UNCHANGED <<appvars, canvasvars, db, nextId, frontLog, tick>>
    /\ UNCHANGED <<tvars, svars>>

\* handleDeleteImage after `await api.deleteImage(id)` resolved
DeleteResolve(m) ==
    /\ m.kind = "delete" /\ m.phase = "ok"
    /\ images' = SelectSeq(images, LAMBDA img : img.id # m.img.id)
    /\ rnd' = RndAfter(images')
    /\ dragPos' = DragPosAfter(images')
    /\ tick' = TickAfter(images')
    /\ net' = Receive(m)
    /\ lastOp' = [op |-> "deleteResolve"]
    /\ UNCHANGED <<uivars, currentWeek, zIndexMap, savevars, draggingId, activeGuides,
                   db, nextId, frontLog>>
    /\ UNCHANGED <<tvars, svars, budget>>

\* handleClearWeek up to the await
HandleClearWeek ==
    /\ rnd.kind = "idle"
    /\ budget > 0
    /\ net' = Send(Request("clearWeek", currentWeek, NoImg))
    /\ budget' = budget - 1
    /\ lastOp' = OtherOp
    /\ UNCHANGED <<appvars, canvasvars, db, nextId, frontLog, tick>>
    /\ UNCHANGED <<tvars, svars>>

\* handleClearWeek after `await api.clearWeek(weekStr)` resolved
ClearWeekResolve(m) ==
    /\ m.kind = "clearWeek" /\ m.phase = "ok"
    /\ images' = <<>>
    /\ rnd' = RndAfter(<<>>)
    /\ dragPos' = DragPosAfter(<<>>)
    /\ tick' = TickAfter(<<>>)
    /\ net' = Receive(m)
    /\ lastOp' = [op |-> "clearWeekResolve"]
    /\ UNCHANGED <<uivars, currentWeek, zIndexMap, savevars, draggingId, activeGuides,
                   db, nextId, frontLog>>
    /\ UNCHANGED <<tvars, svars, budget>>

\* isRetagging: true from setIsRetagging(true) to the finally branch
IsRetagging == retagging # Null

OtherLanguage(lang) == IF lang = "en" THEN "zh" ELSE "en"

\* api.retagImage(img.id, newLang) of one item of the list toggleLanguage
\* closed over; the message keeps the item for the `{ ...img, tags }`
RetagRequest(img, newLang) == [Request("retag", "", img) EXCEPT !.data = <<newLang>>]

\* toggleLanguage up to the await of Promise.all; the button is disabled
\* while isRetagging
ToggleLanguage ==
    /\ rnd.kind = "idle"
    /\ ~IsRetagging
    /\ budget > 0
    /\ language' = OtherLanguage(language)
    /\ IF Len(images) = 0
       THEN UNCHANGED <<retagging, net>>
       ELSE /\ retagging' = Some(images)
            /\ net' = net (+) SetToBag({RetagRequest(images[i], language') :
                                            i \in 1 .. Len(images)})
    /\ budget' = budget - 1
    /\ lastOp' = [op |-> "toggleLanguage"]
    /\ UNCHANGED <<currentWeek, images, zIndexMap, savevars, uploading>>
    /\ UNCHANGED <<canvasvars, db, nextId, frontLog, tick>>
    /\ UNCHANGED <<tvars, svars>>

\* the settled retag request of item id
RetagResponse(id) == CHOOSE m \in Msgs : m.kind = "retag" /\ m.img.id = id

\* the value of Promise.all: per item `{ ...img, tags: result.tags }`, or
\* img when its request failed
RetagUpdated(snapshot) ==
    [i \in 1 .. Len(snapshot) |->
        IF RetagResponse(snapshot[i].id).phase = "ok"
        THEN [snapshot[i] EXCEPT !.tags = RetagResponse(snapshot[i].id).data[1]]
        ELSE snapshot[i]]

\* toggleLanguage after Promise.all settled: setImages(updated) and the
\* finally branch
RetagResolve ==
    /\ IsRetagging
    /\ \A m \in Msgs : m.kind = "retag" => m.phase # "req"
    /\ images' = RetagUpdated(retagging[1])
    /\ rnd' = RndAfter(images')
    /\ dragPos' = DragPosAfter(images')
    /\ tick' = TickAfter(images')
    /\ net' = [m \in {q \in Msgs : q.kind # "retag"} |-> net[m]]
    /\ retagging' = Null
    /\ lastOp' = [op |-> "retagResolve"]
    /\ UNCHANGED <<currentWeek, zIndexMap, savevars, uploading, language>>
    /\ UNCHANGED <<draggingId, activeGuides, db, nextId, frontLog>>
    /\ UNCHANGED <<tvars, svars, budget>>

\* handlePositionChange: the setImages updater
PositionChangeWhole(imgs, id, pos) ==
    [i \in 1 .. Len(imgs) |-> IF imgs[i].id = id THEN pos ELSE imgs[i]]
PositionChange(imgs, id, pos) ==
    [i \in 1 .. Len(imgs) |->
        IF imgs[i].id = id
        THEN [imgs[i] EXCEPT !.x = pos.x, !.y = pos.y, !.width = pos.width, !.height = pos.height]
        ELSE imgs[i]]

\* the timer of debouncedSavePosition fires: savePosition -> api.updateImagePosition
SaveTimerFires ==
    /\ saveTimer # Null
    /\ net' = Send(Request("position", "", saveTimer[1]))
    /\ saveTimer' = Null
    /\ unsaved' = unsaved \ {saveTimer[1].id}
    /\ lastOp' = OtherOp
    /\ UNCHANGED <<uivars, currentWeek, images, zIndexMap, canvasvars, db, nextId, frontLog, tick>>
    /\ UNCHANGED <<tvars, svars, budget>>

\* --- server (index.ts) -----------------------------------------------------

Respond(m, phase, img, data) ==
    Receive(m) (+) SetToBag({[m EXCEPT !.phase = phase, !.img = img, !.data = data]})

\* GET /api/weeks/:weekStr
ServerGetWeek(m) ==
    /\ m.kind = "getWeek" /\ m.phase = "req"
    /\ net' = Respond(m, "ok", m.img, RowsById({r \in db : r.weekStr = m.weekStr}))
    /\ lastOp' = OtherOp
    /\ UNCHANGED <<appvars, canvasvars, db, nextId, frontLog, tick>>
    /\ UNCHANGED <<tvars, svars, budget>>

\* POST /api/images: the row is inserted before the tagging call, which may
\* fail (tagged = FALSE) and turn the response into an error
ServerUpload(m, tagged) ==
    /\ m.kind = "upload" /\ m.phase = "req"
    /\ LET row == [m.img EXCEPT !.id = nextId, !.weekStr = m.weekStr,
                                !.width = 280, !.height = 0]
       IN  /\ db' = db \cup {row}
           /\ net' = Respond(m, IF tagged THEN "ok" ELSE "err", row, <<>>)
    /\ nextId' = nextId + 1
    /\ lastOp' = OtherOp
    /\ UNCHANGED <<appvars, canvasvars, frontLog, tick>>
    /\ UNCHANGED <<tvars, svars, budget>>

\* DELETE /api/images/:id
ServerDelete(m) ==
    /\ m.kind = "delete" /\ m.phase = "req"
    /\ db' = {r \in db : r.id # m.img.id}
    /\ net' = Respond(m, "ok", m.img, <<>>)
    /\ lastOp' = OtherOp
    /\ UNCHANGED <<appvars, canvasvars, nextId, frontLog, tick>>
    /\ UNCHANGED <<tvars, svars, budget>>

\* DELETE /api/weeks/:weekStr/images
ServerClearWeek(m) ==
    /\ m.kind = "clearWeek" /\ m.phase = "req"
    /\ db' = {r \in db : r.weekStr # m.weekStr}
    /\ net' = Respond(m, "ok", m.img, <<>>)
    /\ lastOp' = OtherOp
    /\ UNCHANGED <<appvars, canvasvars, nextId, frontLog, tick>>
    /\ UNCHANGED <<tvars, svars, budget>>

\* PATCH /api/images/:id/position; its response changes no client state
ServerPosition(m) ==
    /\ m.kind = "position" /\ m.phase = "req"
    /\ db' = {IF r.id = m.img.id
              THEN [r EXCEPT !.x = m.img.x, !.y = m.img.y,
                             !.width = m.img.width, !.height = m.img.height]
              ELSE r : r \in db}
    /\ net' = Receive(m)
    /\ lastOp' = OtherOp
    /\ UNCHANGED <<appvars, canvasvars, nextId, frontLog, tick>>
    /\ UNCHANGED <<tvars, svars, budget>>

\* POST /api/images/:id/retag: 404 when the row is gone, else the tags of
\* the image are replaced by tags in the language asked for
ServerRetag(m) ==
    /\ m.kind = "retag" /\ m.phase = "req"
    /\ IF \E r \in db : r.id = m.img.id
       THEN /\ db' = {IF r.id = m.img.id THEN [r EXCEPT !.tags = m.data[1]] ELSE r : r \in db}
            /\ net' = Respond(m, "ok", m.img, m.data)
       ELSE /\ db' = db
            /\ net' = Respond(m, "err", m.img, m.data)
    /\ lastOp' = OtherOp
    /\ UNCHANGED <<appvars, canvasvars, nextId, frontLog, tick>>
    /\ UNCHANGED <<tvars, svars, budget>>

\* a retag request that fails before the server changed anything
RetagFails(m) ==
    /\ m.kind = "retag" /\ m.phase = "req"
    /\ net' = Respond(m, "err", m.img, m.data)
    /\ lastOp' = OtherOp
    /\ UNCHANGED <<appvars, canvasvars, db, nextId, frontLog, tick>>
    /\ UNCHANGED <<tvars, svars, budget>>

\* an upload that fails before the row is inserted (network, validation,
\* size limit)
UploadFails(m) ==
    /\ m.kind = "upload" /\ m.phase = "req"
    /\ net' = Respond(m, "err", m.img, <<>>)
    /\ lastOp' = OtherOp
    /\ UNCHANGED <<appvars, canvasvars, db, nextId, frontLog, tick>>
    /\ UNCHANGED <<tvars, svars, budget>>

\* any other request that fails before the server changed anything; the
\* catch branch of its caller shows a toast and changes no state
RequestFails(m) ==
    /\ m.kind \notin {"upload", "retag"} /\ m.phase = "req"
    /\ net' = Receive(m)
    /\ lastOp' = OtherOp
    /\ UNCHANGED <<appvars, canvasvars, db, nextId, frontLog, tick>>
    /\ UNCHANGED <<tvars, svars, budget>>

\* --- InfiniteCanvas and CanvasCard ----------------------------------------

\* parseInt(ref.style.width, 10) of a pixel length counted in half units
ParseIntRounded(v) == (v + 1) \div 2
ParseInt(v) == v \div 2

\* the Rnd of a card in its style: position and size, 'auto' height is 0
RndOf(kind, img) ==
    [kind |-> kind, id |-> img.id, x |-> U(img.x), y |-> U(img.y),
     width |-> U(CardWidth(img)), height |-> U(CardHeight(img))]

\* Rnd onDragStart of card id: CanvasCard.onDragStart -> handleDragStart
\* -> handleBringToFront
HandleDragStart(id) ==
    /\ rnd.kind = "idle"
    /\ id \in Ids(images)
    /\ budget > 0
    /\ budget' = budget - 1
    /\ LET img == ImageOf(images, id)
       IN  /\ dragPos' = [x |-> U(img.x), y |-> U(img.y)]
           /\ rnd' = RndOf("drag", img)
    /\ draggingId' = Some(id)
    /\ zIndexMap' = BringToFront(zIndexMap, id)
    /\ frontLog' = [id |-> Some(id), sinceLoad |-> TRUE]
    /\ tick' = TickStart(ImageOf(images, id))
    /\ lastOp' = [op |-> "dragStart", id |-> id]
    /\ UNCHANGED <<uivars, currentWeek, images, savevars, activeGuides, servervars>>
    /\ UNCHANGED <<tvars, svars>>

\* onDrag of CanvasCard: the dragPos ref after a tick at raw position d
\* whose calcSnap returned result
DragPosOf(result, d) ==
    [x |-> IF result.snapX # Null THEN result.snapX[1] ELSE d[1],
     y |-> IF result.snapY # Null THEN result.snapY[1] ELSE d[2]]

\* onDragStop of CanvasCard: the committed position, in whole units
DragStopPos(dp) == [x |-> RoundHalf(dp.x), y |-> RoundHalf(dp.y)]

\* Rnd onDrag with raw position d: CanvasCard.onDrag -> handleDrag -> calcSnap
HandleDrag(d) ==
    /\ rnd.kind = "drag"
    /\ LET img == ImageOf(images, rnd.id)
           rect == [x |-> d[1], y |-> d[2],
                    width |-> U(CardWidth(img)), height |-> U(HeightNum(img))]
           result == CalcSnap(ImageRects(images), DraggingIndex, rect)
       IN  /\ activeGuides' = result.guides
           /\ dragPos' = DragPosOf(result, d)
           /\ lastOp' = [op |-> "drag", rect |-> rect, result |-> result]
           /\ tick' = TickOf(rect, rect, result)
    /\ rnd' = [rnd EXCEPT !.x = d[1], !.y = d[2]]
    /\ UNCHANGED <<appvars, draggingId, servervars, frontLog>>
    /\ UNCHANGED <<tvars, svars, budget>>

\* Rnd onDragStop: CanvasCard.onDragStop -> handleDragStop
\* -> handlePositionChange -> debouncedSavePosition
HandleDragStopRaw ==
    /\ rnd.kind = "drag"
    /\ LET img == ImageOf(images, rnd.id)
           pos == [NoImg EXCEPT !.id = rnd.id,
                                !.x = RoundHalf(rnd.x), !.y = RoundHalf(rnd.y),
                                !.width = CardWidth(img), !.height = CardHeight(img)]
       IN  /\ images' = PositionChange(images, rnd.id, pos)
           /\ saveTimer' = Some(pos)
           /\ unsaved' = unsaved \cup {pos.id}
           /\ lastOp' = [op |-> "dragStop", pos |-> pos, tick |-> tick]
    /\ draggingId' = Null
    /\ activeGuides' = <<>>
    /\ rnd' = RndIdle
    /\ dragPos' = NoDragPos
    /\ tick' = NoTick
    /\ UNCHANGED <<uivars, currentWeek, zIndexMap, servervars, frontLog>>
    /\ UNCHANGED <<tvars, svars, budget>>
HandleDragStop ==
    /\ rnd.kind = "drag"
    /\ LET img == ImageOf(images, rnd.id)
           pos == [NoImg EXCEPT !.id = rnd.id,
                                !.x = DragStopPos(dragPos).x, !.y = DragStopPos(dragPos).y,
                                !.width = CardWidth(img), !.height = CardHeight(img)]
       IN  /\ images' = PositionChange(images, rnd.id, pos)
           /\ saveTimer' = Some(pos)
           /\ unsaved' = unsaved \cup {pos.id}
           /\ lastOp' = [op |-> "dragStop", pos |-> pos, tick |-> tick]
    /\ draggingId' = Null
    /\ activeGuides' = <<>>
    /\ rnd' = RndIdle
    /\ dragPos' = NoDragPos
    /\ tick' = NoTick
    /\ UNCHANGED <<uivars, currentWeek, zIndexMap, servervars, frontLog>>
    /\ UNCHANGED <<tvars, svars, budget>>

\* Rnd onResizeStart of card id: handleResizeStart
HandleResizeStartToFront(id) ==
    /\ rnd.kind = "idle"
    /\ id \in Ids(images)
    /\ budget > 0
    /\ budget' = budget - 1
    /\ draggingId' = Some(id)
    /\ rnd' = RndOf("resize", ImageOf(images, id))
    /\ zIndexMap' = BringToFront(zIndexMap, id)
    /\ tick' = TickStart(ImageOf(images, id))
    /\ lastOp' = [op |-> "resizeStart", id |-> id]
    /\ UNCHANGED <<uivars, currentWeek, images, savevars, activeGuides, dragPos, servervars, frontLog>>
    /\ UNCHANGED <<tvars, svars>>
HandleResizeStartUntracked(id) ==
    /\ rnd.kind = "idle"
    /\ id \in Ids(images)
    /\ budget > 0
    /\ budget' = budget - 1
    /\ rnd' = RndOf("resize", ImageOf(images, id))
    /\ tick' = TickStart(ImageOf(images, id))
    /\ lastOp' = [op |-> "resizeStart", id |-> id]
    /\ UNCHANGED <<appvars, draggingId, activeGuides, dragPos, servervars, frontLog>>
    /\ UNCHANGED <<tvars, svars>>
HandleResizeStart(id) ==
    /\ rnd.kind = "idle"
    /\ id \in Ids(images)
    /\ budget > 0
    /\ budget' = budget - 1
    /\ draggingId' = Some(id)
    /\ rnd' = RndOf("resize", ImageOf(images, id))
    /\ tick' = TickStart(ImageOf(images, id))
    /\ lastOp' = [op |-> "resizeStart", id |-> id]
    /\ UNCHANGED <<appvars, activeGuides, dragPos, servervars, frontLog>>
    /\ UNCHANGED <<tvars, svars>>

\* Rnd onResize with raw rect r: CanvasCard.onResize -> handleResize -> calcSnap
HandleResize(r) ==
    /\ rnd.kind = "resize"
    /\ LET img == ImageOf(images, rnd.id)
           w == IF ParseInt(r.width) # 0 THEN ParseInt(r.width) ELSE CardWidth(img)
           h == IF ParseInt(r.height) # 0 THEN ParseInt(r.height) ELSE HeightNum(img)
           rect == [x |-> r.x, y |-> r.y, width |-> U(w), height |-> U(h)]
           result == CalcSnap(ImageRects(images), DraggingIndex, rect)
       IN  /\ activeGuides' = result.guides
           /\ lastOp' = [op |-> "resize", rect |-> rect, result |-> result]
           /\ tick' = TickOf(r, rect, result)
    /\ rnd' = [rnd EXCEPT !.x = r.x, !.y = r.y, !.width = r.width, !.height = r.height]
    /\ UNCHANGED <<appvars, draggingId, dragPos, servervars, frontLog>>
    /\ UNCHANGED <<tvars, svars, budget>>

\* Rnd onResizeStop: CanvasCard.onResizeStop -> handleResizeStop
\* -> handlePositionChange -> debouncedSavePosition
HandleResizeStop ==
    /\ rnd.kind = "resize"
    /\ LET img == ImageOf(images, rnd.id)
           pos == [NoImg EXCEPT !.id = rnd.id,
                                !.x = RoundHalf(rnd.x), !.y = RoundHalf(rnd.y),
                                !.width = IF ParseInt(rnd.width) # 0
                                          THEN ParseInt(rnd.width) ELSE CardWidth(img),
                                !.height = ParseInt(rnd.height)]
       IN  /\ images' = PositionChange(images, rnd.id, pos)
           /\ saveTimer' = Some(pos)
           /\ unsaved' = unsaved \cup {pos.id}
           /\ lastOp' = [op |-> "resizeStop", pos |-> pos, tick |-> tick]
    /\ draggingId' = Null
    /\ activeGuides' = <<>>
    /\ rnd' = RndIdle
    /\ tick' = NoTick
    /\ UNCHANGED <<uivars, currentWeek, zIndexMap, dragPos, servervars, frontLog>>
    /\ UNCHANGED <<tvars, svars, budget>>

----------------------------------------------------------------------------
(* Specifications                                                          *)

TInit ==
    /\ transform = InitialTransform
    /\ isPanning = FALSE
    /\ lastMouse = [x |-> 0, y |-> 0]
    /\ containerRect \in ContainerRects
    /\ mounted = TRUE
    /\ budget = MaxSteps

\* no alignment call in progress
SIdle ==
    /\ allRects = <<>>
    /\ excludeIndex = -1
    /\ draggingRect = Null
    /\ snapResult = Null

\* App mounted on week 8: empty list, the first fetchWeekData request sent
BInit ==
    /\ currentWeek = "2026-W08"
    /\ images = <<>>
    /\ zIndexMap = InitialZIndexMap
    /\ saveTimer = Null
    /\ unsaved = {}
    /\ uploading = FALSE
    /\ language = "zh"
    /\ retagging = Null
    /\ draggingId = Null
    /\ activeGuides = <<>>
    /\ rnd = RndIdle
    /\ dragPos = NoDragPos
    /\ db = InitialRows
    /\ nextId = 3
    /\ net = SetToBag({Request("getWeek", "2026-W08", NoImg)})
    /\ frontLog = [id |-> Null, sinceLoad |-> FALSE]
    /\ tick = NoTick

vars == <<tvars, budget, svars, bvars, lastOp>>

InitTransform == TInit /\ SIdle /\ BInit /\ lastOp = [op |-> "init"]

NextTransform ==
    \/ \E p \in ScreenPoints, bg \in BOOLEAN : OnMouseDown(p, bg)
    \/ \E p \in ScreenPoints : OnMouseMove(p)
    \/ OnMouseUp
    \/ \E e \in WheelEvents : HandleWheel(e)
    \/ ResetView

SpecTransform == InitTransform /\ [][NextTransform]_vars

\* the alignment engine as a function of its inputs
InitSnap ==
    /\ transform = InitialTransform
    /\ isPanning = FALSE
    /\ lastMouse = [x |-> 0, y |-> 0]
    /\ containerRect = [left |-> 0, top |-> 0, width |-> 1280, height |-> 720]
    /\ mounted = TRUE
    /\ budget = MaxSteps
    /\ allRects \in SeqsUpTo(RectPool, MaxRects)
    /\ excludeIndex \in -1 .. (Len(allRects) - 1)
    /\ draggingRect = Null
    /\ snapResult = Null
    /\ BInit
    /\ lastOp = [op |-> "init"]

NextSnap == \E dr \in DragRects : CalcSnapCall(dr)

SpecSnap == InitSnap /\ [][NextSnap]_vars

\* the upload routes of the canvas under pan / zoom, with the upload
\* endpoint; the container may be unmounted
MaxUploadEvents == 3

InitUpload ==
    /\ transform = InitialTransform
    /\ isPanning = FALSE
    /\ lastMouse = [x |-> 0, y |-> 0]
    /\ containerRect \in ContainerRects
    /\ mounted \in BOOLEAN
    /\ budget = MaxUploadEvents
    /\ SIdle
    /\ BInit
    /\ lastOp = [op |-> "init"]

\* wheel events of the upload routes: a pinch at one point, in and out
UploadWheelEvents == {e \in WheelEvents : e.ctrlKey /\ e.clientX = 500}

NextUpload ==
    \/ \E items \in SeqsUpTo(ItemPool, MaxItems) : HandlePaste(items)
    \/ \E p \in ScreenPoints, files \in SeqsUpTo(FilePool, MaxItems) : HandleDrop(p, files)
    \/ \E files \in SeqsUpTo(FilePool, MaxItems) : HandleFileSelect(files)
    \/ \E e \in UploadWheelEvents : HandleWheel(e)
    \/ \E m \in Msgs, tagged \in BOOLEAN : ServerUpload(m, tagged)
    \/ \E m \in Msgs : UploadFails(m)
    \/ \E m \in Msgs : UploadResolve(m)
    \/ \E m \in Msgs : UploadReject(m)

SpecUpload == InitUpload /\ [][NextUpload]_vars

\* the board with its server
InitBoard ==
    /\ transform = InitialTransform
    /\ isPanning = FALSE
    /\ lastMouse = [x |-> 0, y |-> 0]
    /\ containerRect = [left |-> 0, top |-> 0, width |-> 1280, height |-> 720]
    /\ mounted = TRUE
    /\ budget = MaxEvents
    /\ SIdle
    /\ BInit
    /\ lastOp = [op |-> "init"]

NextBoard ==
    \/ \E w \in Weeks : Navigate(w)
    \/ \E m \in Msgs : FetchResolve(m)
    \/ \E m \in Msgs : UploadReject(m)
    \/ \E p \in DropPoints : HandleDrop(p, <<ImageFile>>)
    \/ \E m \in Msgs : UploadResolve(m)
    \/ \E id \in Ids(images) : HandleDeleteImage(id)
    \/ \E m \in Msgs : DeleteResolve(m)
    \/ HandleClearWeek
    \/ \E m \in Msgs : ClearWeekResolve(m)
    \/ SaveTimerFires
    \/ \E m \in Msgs : ServerGetWeek(m)
    \/ \E m \in Msgs, tagged \in BOOLEAN : ServerUpload(m, tagged)
    \/ \E m \in Msgs : ServerDelete(m)
    \/ \E m \in Msgs : ServerClearWeek(m)
    \/ \E m \in Msgs : ServerPosition(m)
    \/ \E m \in Msgs : UploadFails(m)
    \/ \E m \in Msgs : RequestFails(m)
    \/ \E id \in Ids(images) : HandleDragStart(id)
    \/ \E d \in DragPoints : HandleDrag(d)
    \/ HandleDragStop
    \/ \E id \in Ids(images) : HandleResizeStart(id)
    \/ \E r \in ResizeRects : HandleResize(r)
    \/ HandleResizeStop
    \/ \E p \in DropPoints, bg \in BOOLEAN : OnMouseDown(p, bg)
    \/ \E p \in DropPoints : OnMouseMove(p)
    \/ OnMouseUp
    \/ \E e \in BoardWheelEvents : HandleWheel(e)
    \/ ResetView

SpecBoard == InitBoard /\ [][NextBoard]_vars

\* the language toggle next to the handlers that write the item list
MaxRetagEvents == 2

InitRetag ==
    /\ transform = InitialTransform
    /\ isPanning = FALSE
    /\ lastMouse = [x |-> 0, y |-> 0]
    /\ containerRect = [left |-> 0, top |-> 0, width |-> 1280, height |-> 720]
    /\ mounted = TRUE
    /\ budget = MaxRetagEvents
    /\ SIdle
    /\ BInit
    /\ lastOp = [op |-> "init"]

NextRetag ==
    \/ \E m \in Msgs : ServerGetWeek(m)
    \/ \E m \in Msgs : FetchResolve(m)
    \/ ToggleLanguage
    \/ \E m \in Msgs : ServerRetag(m)
    \/ \E m \in Msgs : RetagFails(m)
    \/ RetagResolve
    \/ \E p \in DropPoints : HandleDrop(p, <<ImageFile>>)
    \/ \E m \in Msgs, tagged \in BOOLEAN : ServerUpload(m, tagged)
    \/ \E m \in Msgs : UploadResolve(m)
    \/ \E m \in Msgs : UploadReject(m)
    \/ \E id \in Ids(images) : HandleDragStart(id)
    \/ \E d \in DragPoints : HandleDrag(d)
    \/ HandleDragStop
    \/ \E id \in Ids(images) : HandleDeleteImage(id)
    \/ \E m \in Msgs : ServerDelete(m)
    \/ \E m \in Msgs : DeleteResolve(m)

SpecRetag == InitRetag /\ [][NextRetag]_vars


----------------------------------------------------------------------------
(* C1: after any sequence of wheel-zoom, pan and reset-view operations the  *)
(* transform's scale lies in [MIN_SCALE, MAX_SCALE] = [0.25, 2.0].          *)
ScaleClamped ==
    /\ RLe(MIN_SCALE, transform.scale)
    /\ RLe(transform.scale, MAX_SCALE)

\* a zoom-in step whose unclamped scale exceeded MAX_SCALE has just run
ScaleClampedWitness ==
    /\ lastOp.op = "wheel"
    /\ lastOp.prev.scale = MAX_SCALE
    /\ lastOp.e.deltaY < 0
    /\ transform.scale = MAX_SCALE

(* C2: a wheel-zoom step keeps the canvas point under the cursor fixed:     *)
(* screenToCanvas(cursor) is the same under the transform before and after *)
(* the step, also when the new scale was clamped.                          *)
ZoomAnchored ==
    lastOp.op = "wheel" =>
        ScreenToCanvas(lastOp.e.clientX, lastOp.e.clientY, containerRect, lastOp.prev)
            = ScreenToCanvas(lastOp.e.clientX, lastOp.e.clientY, containerRect, transform)

\* a wheel step that was clamped at MAX_SCALE from a panned, zoomed transform
ZoomAnchoredWitness ==
    /\ lastOp.op = "wheel"
    /\ lastOp.prev.scale = Rat(3, 2)
    /\ lastOp.prev.x # RInt(0)
    /\ transform.scale = MAX_SCALE
    /\ lastOp.e.clientX = 500
    /\ transform.x # lastOp.prev.x

----------------------------------------------------------------------------
(* Vocabulary of the alignment claims, stated on the inputs of the last    *)
(* calcSnap call, independently of how calcSnap walks them.                *)

\* the positions (1-based) of the rects that are not the active item
OtherIdx == {i \in 1 .. Len(allRects) : i - 1 # excludeIndex}

\* the positions of OtherIdx in increasing order
OtherIdxSeq ==
    CHOOSE f \in [1 .. Cardinality(OtherIdx) -> OtherIdx] :
        \A i, j \in 1 .. Cardinality(OtherIdx) : i < j => f[i] < f[j]

\* candidate k belongs to the RectOf(k)-th other rect and is its PairOf(k)-th pair
RectOf(k) == ((k - 1) \div 9) + 1
PairOf(k) == ((k - 1) % 9) + 1

\* the k-th candidate pair [activeValue, otherValue] of an axis, in the
\* order rects are listed and pairs are tested
XCand(k) == VChecks(GetEdges(draggingRect[1]),
                    GetEdges(allRects[OtherIdxSeq[RectOf(k)]]))[PairOf(k)]
YCand(k) == HChecks(GetEdges(draggingRect[1]),
                    GetEdges(allRects[OtherIdxSeq[RectOf(k)]]))[PairOf(k)]
CandIdx == 1 .. 9 * Cardinality(OtherIdx)
XDist(k) == Abs(XCand(k)[1] - XCand(k)[2])
YDist(k) == Abs(YCand(k)[1] - YCand(k)[2])

\* the closest qualifying candidate of an axis, first in order among equals
FirstClosest(Dist(_)) ==
    LET q == {k \in CandIdx : Dist(k) < U(SNAP_THRESHOLD)}
        best == CHOOSE k \in q : \A j \in q : Dist(k) <= Dist(j)
    IN  CHOOSE k \in q : Dist(k) = Dist(best) /\ \A j \in q : Dist(j) = Dist(best) => k <= j

(* C6: on each axis calcSnap snaps exactly when some candidate pair of that *)
(* axis is closer than SNAP_THRESHOLD (6 units): smallest distance below 6 *)
(* gives a non-null snap, smallest distance 6 or more gives null.          *)
SnapThreshold ==
    snapResult # Null =>
        /\ (snapResult[1].snapX # Null)
              <=> (\E k \in CandIdx : XDist(k) < U(SNAP_THRESHOLD))
        /\ (snapResult[1].snapY # Null)
              <=> (\E k \in CandIdx : YDist(k) < U(SNAP_THRESHOLD))

\* closest x candidate 5.5 units away (snaps), closest y candidate exactly
\* 6 units away (does not)
SnapThresholdWitness ==
    /\ snapResult # Null
    /\ CandIdx # {}
    /\ \A k \in CandIdx : XDist(k) >= U(5) + 1
    /\ \E k \in CandIdx : XDist(k) = U(5) + 1
    /\ \A k \in CandIdx : YDist(k) >= U(6)
    /\ \E k \in CandIdx : YDist(k) = U(6)
    /\ snapResult[1].snapX # Null
    /\ snapResult[1].snapY = Null

(* C7: on each axis the snap comes from the qualifying candidate pair       *)
(* (a, o) of smallest |a - o|, the first one tested among equals; the snap  *)
(* is active.x + (o - a) resp. active.y + (o - a), and the active rect      *)
(* moved there has that edge / center exactly on o.                        *)
SnapClosestWins ==
    snapResult # Null =>
        /\ (\E k \in CandIdx : XDist(k) < U(SNAP_THRESHOLD)) =>
              LET k == FirstClosest(XDist)
                  dr == draggingRect[1]
                  sx == snapResult[1].snapX
              IN  /\ sx = Some(dr.x + (XCand(k)[2] - XCand(k)[1]))
                  /\ VChecks(GetEdges([dr EXCEPT !.x = sx[1]]),
                             GetEdges(allRects[OtherIdxSeq[RectOf(k)]]))
                         [PairOf(k)][1] = XCand(k)[2]
        /\ (\E k \in CandIdx : YDist(k) < U(SNAP_THRESHOLD)) =>
              LET k == FirstClosest(YDist)
                  dr == draggingRect[1]
                  sy == snapResult[1].snapY
              IN  /\ sy = Some(dr.y + (YCand(k)[2] - YCand(k)[1]))
                  /\ HChecks(GetEdges([dr EXCEPT !.y = sy[1]]),
                             GetEdges(allRects[OtherIdxSeq[RectOf(k)]]))
                         [PairOf(k)][1] = YCand(k)[2]

\* a tie: the active rect is 3 units right of A's right edge and 3 units
\* left of B's left edge; A is listed first and wins
SnapClosestWinsWitness ==
    /\ snapResult # Null
    /\ allRects = <<Rect(100, 100, 280, 200), Rect(666, 100, 280, 200)>>
    /\ excludeIndex = -1
    /\ draggingRect = Some([x |-> U(383), y |-> U(105), width |-> U(280), height |-> U(200)])
    /\ snapResult[1].snapX = Some(U(380))
    /\ snapResult[1].snapY = Some(U(100))

(* C8: with no other rects (no items, or only the active item) calcSnap     *)
(* returns snapX = null, snapY = null and no guides, whatever the active   *)
(* rect.                                                                   *)
SingleItemNoSnap ==
    (snapResult # Null /\ OtherIdx = {}) =>
        snapResult[1] = [snapX |-> Null, snapY |-> Null, guides |-> <<>>]

\* the only item of the board is dragged 3 units off its own stored rect
SingleItemNoSnapWitness ==
    /\ allRects = <<Rect(100, 100, 280, 200)>>
    /\ excludeIndex = 0
    /\ draggingRect = Some([x |-> U(97), y |-> U(105), width |-> U(280), height |-> U(200)])
    /\ snapResult = Some([snapX |-> Null, snapY |-> Null, guides |-> <<>>])

(* C10: with A = {100, 100, 280, 200} the only other rect and the active    *)
(* rect at {100, 105, 280, 200}, calcSnap returns snapY = 100, a horizontal *)
(* guide at position 100, and snapX 100 or null.                           *)
ScenarioSnapToTop ==
    (/\ snapResult # Null
     /\ Cardinality(OtherIdx) = 1
     /\ \A i \in OtherIdx : allRects[i] = Rect(100, 100, 280, 200)
     /\ draggingRect = Some(Rect(100, 105, 280, 200)))
    => /\ snapResult[1].snapY = Some(U(100))
       /\ \E g \in 1 .. Len(snapResult[1].guides) :
             /\ snapResult[1].guides[g].type = "horizontal"
             /\ snapResult[1].guides[g].position = U(100)
       /\ snapResult[1].snapX \in {Some(U(100)), Null}

\* the scenario with A listed after the active item
ScenarioSnapToTopWitness ==
    /\ snapResult # Null
    /\ Len(allRects) = 2
    /\ excludeIndex = 0
    /\ allRects[2] = Rect(100, 100, 280, 200)
    /\ draggingRect = Some(Rect(100, 105, 280, 200))
    /\ snapResult[1].snapY = Some(U(100))
    /\ snapResult[1].snapX = Some(U(100))
    /\ Len(snapResult[1].guides) = 6

----------------------------------------------------------------------------
(* Z-order claims.  frontLog.id is the id of the last bringToFront call,   *)
(* frontLog.sinceLoad whether that call came after the last week load.     *)

\* the front item is on the board and outranks every other item on it
FrontOutranksOthers ==
    LET front == frontLog.id[1]
    IN  \A j \in Ids(images) \ {front} :
            ZIndex(zIndexMap.map, front) > ZIndex(zIndexMap.map, j)

(* C3 as stated: after any sequence of bringToFront calls interleaved with  *)
(* the board's other operations, the item most recently brought to front,  *)
(* while on the board, has a rank (map[id], default 1) strictly greater    *)
(* than the rank of every other current item.                              *)
FrontHighestAlways ==
    (frontLog.id # Null /\ frontLog.id[1] \in Ids(images)) => FrontOutranksOthers

(* C3 amended: the item most recently brought to front since the last week *)
(* load, while on the board, has a rank strictly greater than the rank of  *)
(* every other current item.                                               *)
FrontHighestSinceLoad ==
    (/\ frontLog.id # Null
     /\ frontLog.sinceLoad
     /\ frontLog.id[1] \in Ids(images)) => FrontOutranksOthers

\* a second bringToFront, of another item than the first: the first item
\* keeps its rank 2 and the front item is above it
FrontHighestSinceLoadWitness ==
    /\ frontLog.id # Null
    /\ frontLog.sinceLoad
    /\ frontLog.id[1] \in Ids(images)
    /\ \E j \in Ids(images) \ {frontLog.id[1]} :
          /\ j \in DOMAIN zIndexMap.map
          /\ zIndexMap.map[j] = 2
    /\ ZIndex(zIndexMap.map, frontLog.id[1]) = 3

(* C4: bringToFront(id) increments the z-order counter by exactly one and   *)
(* assigns the new counter value to id in the map; the mapping of every    *)
(* other id is left unchanged.                                             *)
BringToFrontEffect ==
    [][lastOp'.op = "dragStart" =>
          LET id == lastOp'.id
          IN  /\ zIndexMap'.counter = zIndexMap.counter + 1
              /\ DOMAIN zIndexMap'.map = DOMAIN zIndexMap.map \cup {id}
              /\ zIndexMap'.map[id] = zIndexMap'.counter
              /\ \A j \in DOMAIN zIndexMap.map \ {id} :
                    zIndexMap'.map[j] = zIndexMap.map[j]]_vars

\* bringToFront of an item that was in the map already, next to another one
BringToFrontEffectWitness ==
    /\ lastOp.op = "dragStart"
    /\ zIndexMap.counter = 4
    /\ DOMAIN zIndexMap.map = {1, 2}
    /\ zIndexMap.map[lastOp.id] = 4
    /\ \E j \in {1, 2} \ {lastOp.id} : zIndexMap.map[j] = 3

(* C5 as stated: the z-order map and its counter are changed only by        *)
(* bringToFront requests; every other board operation leaves both          *)
(* unchanged, so the counter never decreases.                              *)
ZOrderOnlyByBringToFront ==
    [][/\ (zIndexMap' # zIndexMap => lastOp'.op = "dragStart")
       /\ zIndexMap'.counter >= zIndexMap.counter]_vars

(* C5 amended: the z-order map and its counter are changed only by          *)
(* bringToFront requests and by a week load, which resets the map to empty *)
(* and the counter to 1; every other board operation (upload, delete,      *)
(* clear, position commit, pan/zoom, resize start) leaves both unchanged,  *)
(* so the counter never decreases between two week loads.                  *)
ZOrderByBringToFrontOrLoad ==
    [][/\ (lastOp'.op = "fetchResolve" =>
              zIndexMap'.counter = 1 /\ DOMAIN zIndexMap'.map = {})
       /\ (lastOp'.op \notin {"dragStart", "fetchResolve"} => zIndexMap' = zIndexMap)
       /\ (lastOp'.op # "fetchResolve" =>
              zIndexMap'.counter >= zIndexMap.counter)]_vars

\* a week load has just reset the z-order after an item had been brought to
\* front
ZOrderByBringToFrontOrLoadWitness ==
    /\ lastOp.op = "fetchResolve"
    /\ frontLog.id # Null
    /\ ~frontLog.sinceLoad
    /\ zIndexMap.counter = 1
    /\ DOMAIN zIndexMap.map = {}
    /\ Len(images) = 2

----------------------------------------------------------------------------
(* C9: while an item is dragged or resized, calcSnap takes every other      *)
(* entry of the item list as a snap candidate, also one whose stored rect  *)
(* equals the active item's, and never the active item's own entry: on     *)
(* each axis the tick snaps exactly when some entry other than the active  *)
(* item's has a candidate pair closer than SNAP_THRESHOLD.                 *)
ActiveExcludedByIndex ==
    lastOp.op \in {"drag", "resize"} =>
        LET act == draggingId[1]
            \* the active item's entry is the first one carrying its id
            cand == {i \in 1 .. Len(images) :
                        \/ images[i].id # act
                        \/ \E j \in 1 .. (i - 1) : images[j].id = act}
            e == GetEdges(lastOp.rect)
            o(i) == GetEdges(ImageRects(images)[i])
            XNear(i) == \E k \in 1 .. 9 :
                Abs(VChecks(e, o(i))[k][1] - VChecks(e, o(i))[k][2]) < U(SNAP_THRESHOLD)
            YNear(i) == \E k \in 1 .. 9 :
                Abs(HChecks(e, o(i))[k][1] - HChecks(e, o(i))[k][2]) < U(SNAP_THRESHOLD)
        IN  /\ (lastOp.result.snapX # Null) <=> (\E i \in cand : XNear(i))
            /\ (lastOp.result.snapY # Null) <=> (\E i \in cand : YNear(i))

\* item 1 is dragged 3 right and 5 down of its stored rect, which is also
\* the stored rect of item 2: the tick snaps back onto item 2
ActiveExcludedByIndexWitness ==
    /\ lastOp.op = "drag"
    /\ draggingId = Some(1)
    /\ Len(images) = 2
    /\ ImageRects(images)[1] = ImageRects(images)[2]
    /\ lastOp.rect.x = U(103)
    /\ lastOp.result.snapX = Some(U(100))
    /\ lastOp.result.snapY = Some(U(100))

----------------------------------------------------------------------------
(* C11: a file dropped at screen point P is forwarded to onUploadFile at    *)
(* screenToCanvas(P) - (140, 100), so that the center of the new card      *)
(* (280 wide, 200 high by default) is rendered on P; with the initial      *)
(* transform, container origin (0, 0) and P = (500, 300) the placement is  *)
(* (360, 200).                                                             *)
DropPlacement ==
    (lastOp.op = "drop" /\ lastOp.forwarded # Null) =>
        LET f == lastOp.forwarded[1]
            center == [x |-> RAdd(f.x, RInt(140)), y |-> RAdd(f.y, RInt(100))]
        IN  /\ CanvasToScreen(center, containerRect, transform)
                 = [x |-> RInt(lastOp.p[1]), y |-> RInt(lastOp.p[2])]
            /\ (/\ transform = [x |-> RInt(0), y |-> RInt(0), scale |-> RInt(1)]
                /\ containerRect.left = 0 /\ containerRect.top = 0
                /\ lastOp.p = <<500, 300>>)
               => (f.x = RInt(360) /\ f.y = RInt(200))

\* the scenario of the claim
DropPlacementWitness ==
    /\ lastOp.op = "drop"
    /\ lastOp.p = <<500, 300>>
    /\ transform = [x |-> RInt(0), y |-> RInt(0), scale |-> RInt(1)]
    /\ containerRect.top = 0
    /\ lastOp.forwarded = Some([item |-> 1, x |-> RInt(360), y |-> RInt(200)])

----------------------------------------------------------------------------
(* C16: a pointer move changes the transform only while a panning gesture   *)
(* is active (after a mouse-down on the background, before the next        *)
(* mouse-up or mouse-leave); it then adds the pointer's screen delta since *)
(* the previous event to the translation and leaves the scale unchanged.   *)
(* A mouse-down on an item never starts a pan.                             *)
PanOnlyWhilePanning ==
    [][/\ (lastOp'.op = "mousemove" /\ ~isPanning) => transform' = transform
       /\ (lastOp'.op = "mousemove" /\ isPanning) =>
              /\ transform'.x = RAdd(transform.x, RInt(lastOp'.p[1] - lastMouse.x))
              /\ transform'.y = RAdd(transform.y, RInt(lastOp'.p[2] - lastMouse.y))
              /\ transform'.scale = transform.scale
              /\ lastMouse' = [x |-> lastOp'.p[1], y |-> lastOp'.p[2]]
       /\ (lastOp'.op = "mousedown" /\ ~lastOp'.onBackground) =>
              isPanning' = isPanning
       /\ (lastOp'.op = "mousedown" /\ lastOp'.onBackground) => isPanning'
       /\ lastOp'.op = "mouseup" => ~isPanning'
       /\ (isPanning' /\ ~isPanning) => lastOp'.op = "mousedown"]_vars

\* a pan step at a zoomed scale moved the translation by the pointer delta
PanOnlyWhilePanningWitness ==
    /\ lastOp.op = "mousemove"
    /\ lastOp.wasPanning
    /\ lastOp.prev.scale = RInt(2)
    /\ transform.scale = RInt(2)
    /\ transform.x = RAdd(lastOp.prev.x, RInt(140))
    /\ transform.y = RAdd(lastOp.prev.y, RInt(60))

----------------------------------------------------------------------------
\* canvas points of the round trip
CanvasPoints ==
    {[x |-> RInt(0), y |-> RInt(0)], [x |-> RInt(360), y |-> RInt(200)],
     [x |-> Rat(-721, 2), y |-> Rat(1001, 3)]}

(* C17: for every reachable transform and every canvas point P,             *)
(* screenToCanvas(canvasToScreen(P)) = P, canvasToScreen(P) being          *)
(* containerOrigin + (x, y) + scale * P.                                   *)
RoundTrip ==
    \A P \in CanvasPoints :
        LET s == CanvasToScreen(P, containerRect, transform)
        IN  ScreenToCanvasR(s.x, s.y, containerRect, transform) = P

\* a zoomed and panned transform in a container below the header
RoundTripWitness ==
    /\ transform.scale \notin {RInt(1), MIN_SCALE, MAX_SCALE}
    /\ transform.x # RInt(0)
    /\ transform.y # RInt(0)
    /\ containerRect.top = 48
    /\ CanvasToScreen([x |-> RInt(360), y |-> RInt(200)], containerRect, transform)
          # [x |-> RInt(360), y |-> RInt(200)]

----------------------------------------------------------------------------
(* Gesture claims.  tick.base is the card's position when the gesture      *)
(* started, tick.last the candidate rect and the snap of its last tick.    *)

\* the position (half units) the last tick of the gesture resolved on an
\* axis: the snap where non-null, otherwise the raw coordinate, and the
\* baseline when there was no tick
ResolvedX(t) ==
    IF t.last = Null THEN t.base.x
    ELSE IF t.last[1].snapX # Null THEN t.last[1].snapX[1] ELSE t.last[1].rect.x
ResolvedY(t) ==
    IF t.last = Null THEN t.base.y
    ELSE IF t.last[1].snapY # Null THEN t.last[1].snapY[1] ELSE t.last[1].rect.y

\* n is v (half units) rounded to the nearest integer, halves upwards
IsRounded(n, v) == 2 * n - v \in {0, 1}

\* the step changes the item list by one position change of item id to pos
\* and leaves one save of pos pending
OneCommit(id, pos) ==
    /\ Len(images') = Len(images)
    /\ \A i \in 1 .. Len(images) :
          images'[i] = IF images[i].id = id
                       THEN [images[i] EXCEPT !.x = pos.x, !.y = pos.y,
                                              !.width = pos.width, !.height = pos.height]
                       ELSE images[i]
    /\ saveTimer' = Some(pos)

(* C12: on drag stop the card commits exactly one position change whose     *)
(* (x, y) is the position resolved by the last drag tick (snapX / snapY    *)
(* where non-null, otherwise the raw coordinate; the drag-start baseline   *)
(* without a tick), rounded to the nearest integer, and whose width and    *)
(* height are the item's, unchanged by the drag.                           *)
DragStopCommits ==
    [][lastOp'.op = "dragStop" =>
          LET id == draggingId[1]
              img == ImageOf(images, id)
              pos == lastOp'.pos
          IN  /\ pos.id = id
              /\ IsRounded(pos.x, ResolvedX(tick))
              /\ IsRounded(pos.y, ResolvedY(tick))
              /\ pos.width = img.width
              /\ pos.height = img.height
              /\ OneCommit(id, pos)]_vars

\* a drag stopped after a tick at raw (103, 105) that snapped to (100, 100),
\* away from where the card was when the drag started
DragStopCommitsWitness ==
    /\ lastOp.op = "dragStop"
    /\ lastOp.tick.last # Null
    /\ lastOp.tick.last[1].rect.x = U(103)
    /\ lastOp.tick.last[1].snapX = Some(U(100))
    /\ lastOp.tick.last[1].snapY = Some(U(100))
    /\ lastOp.tick.base.x = U(501)
    /\ lastOp.pos.x = 100
    /\ lastOp.pos.y = 100
    /\ saveTimer = Some(lastOp.pos)

IsTruncated(n, v) == v - 2 * n \in {0, 1}

GuidesOnlyDuringGesture ==
    rnd.kind = "idle" => activeGuides = <<>>

----------------------------------------------------------------------------
(* Upload route claims.  lastOp holds the items of the last paste, drop or *)
(* file selection and what was handed to onUploadFile.                     *)

\* the positions of the files among the items of the last route
FileIdx == {i \in 1 .. Len(lastOp.items) : lastOp.items[i].kind = "file"}
\* the positions of the image or video files among them
MediaIdx == {i \in FileIdx : lastOp.items[i].type \in {"image", "video"}}
Least(S) == CHOOSE i \in S : \A j \in S : i <= j

UploadRequestAt(f) ==
    Request("upload", currentWeek,
            [NoImg EXCEPT !.x = (2 * f.x[1] + f.x[2]) \div (2 * f.x[2]),
                          !.y = (2 * f.y[1] + f.y[2]) \div (2 * f.y[2]),
                          !.tags = language])

\* the number of upload requests in flight that the server has not seen
UploadReqs(b) ==
    LET S == {m \in BagToSet(b) : m.kind = "upload" /\ m.phase = "req"}
    IN  BagCardinality([m \in S |-> b[m]])
\* the number of failed uploads whose rejection has not been handled
UploadErrs(b) ==
    LET S == {m \in BagToSet(b) : m.kind = "upload" /\ m.phase = "err"}
    IN  BagCardinality([m \in S |-> b[m]])

(* C19 as stated: of a paste or drop carrying several items the first       *)
(* image or video file is the one that is uploaded, whatever non-matching  *)
(* items precede it, and all later items are ignored.                      *)
FirstMediaFileUploaded ==
    (lastOp.op \in {"paste", "drop"} /\ mounted /\ MediaIdx # {}) =>
        /\ lastOp.forwarded # Null
        /\ lastOp.forwarded[1].item = Least(MediaIdx)

(* C19 amended: of a paste or drop carrying several items only the first    *)
(* file is handed on (for a paste the first item that is a file, items     *)
(* that are not files being skipped; for a drop the first file of the      *)
(* list) and all later items are ignored; that file is uploaded when it is *)
(* an image or a video of at most 20MB, otherwise no request is issued.    *)
FirstFileForwarded ==
    [][(lastOp'.op \in {"paste", "drop"} /\ (lastOp'.op = "drop" => mounted)) =>
          LET files == {i \in 1 .. Len(lastOp'.items) : lastOp'.items[i].kind = "file"}
              first == Least(files)
          IN  IF files = {}
              THEN lastOp'.forwarded = Null /\ net' = net
              ELSE /\ lastOp'.forwarded # Null
                   /\ lastOp'.forwarded[1].item = first
                   /\ IF /\ lastOp'.items[first].type \in {"image", "video"}
                         /\ ~lastOp'.items[first].big
                      THEN net' = net (+) SetToBag({UploadRequestAt(lastOp'.forwarded[1])})
                      ELSE UploadReqs(net') = UploadReqs(net)]_vars

\* a paste of a text item and a video: the text item is skipped, the
\* video is handed on and its upload is requested
FirstFileForwardedWitness ==
    /\ lastOp.op = "paste"
    /\ lastOp.items = <<TextItem, VideoFile>>
    /\ lastOp.forwarded # Null
    /\ lastOp.forwarded[1].item = 2
    /\ \E m \in Msgs : m.kind = "upload" /\ m.phase = "req"

(* C20: each paste, drop or file selection causes at most one upload        *)
(* request, nothing else issues one, and a failed request is not retried:  *)
(* handling the failure issues no request and changes no board state (it   *)
(* ends the uploading indicator and shows a notification).                 *)
AtMostOneUploadRequest ==
    [][/\ UploadReqs(net') <= UploadReqs(net) + 1
       /\ UploadReqs(net') > UploadReqs(net) =>
              lastOp'.op \in {"paste", "drop", "browse"}
       /\ lastOp'.op = "uploadReject" =>
              /\ UploadErrs(net') = UploadErrs(net) - 1
              /\ UploadReqs(net') = UploadReqs(net)
              /\ UNCHANGED <<currentWeek, images, zIndexMap, savevars, language, retagging>>
              /\ UNCHANGED canvasvars]_vars

\* one user action, whose upload was rejected and reported: no request
\* is left and the board is unchanged
AtMostOneUploadRequestWitness ==
    /\ lastOp.op = "uploadReject"
    /\ budget = MaxUploadEvents - 1
    /\ UploadReqs(net) = 0
    /\ UploadErrs(net) = 0
    /\ images = <<>>

----------------------------------------------------------------------------
(* The guides calcSnap returns                                             *)

\* the active rect at the position the tick resolves to: snapped on the
\* axes that snapped, raw on the others
SnappedRect ==
    LET dr == draggingRect[1]
        r == snapResult[1]
    IN  [dr EXCEPT !.x = IF r.snapX # Null THEN r.snapX[1] ELSE dr.x,
                   !.y = IF r.snapY # Null THEN r.snapY[1] ELSE dr.y]

VGuideIdx == {i \in 1 .. Len(snapResult[1].guides) : snapResult[1].guides[i].type = "vertical"}
HGuideIdx == {i \in 1 .. Len(snapResult[1].guides) : snapResult[1].guides[i].type = "horizontal"}

\* value w (1, 2, 3) of the x axis resp. y axis of the j-th rect of allRects
XVal(j, w) == LET o == GetEdges(allRects[j]) IN <<o.left, o.right, o.centerX>>[w]
YVal(j, w) == LET o == GetEdges(allRects[j]) IN <<o.top, o.bottom, o.centerY>>[w]

\* the (other item, value) pairs that lie within 1 unit of an edge or the
\* center of the snapped rect
XAligned ==
    LET a == GetEdges(SnappedRect)
    IN  {jw \in OtherIdx \X (1 .. 3) :
            \E e \in {a.left, a.right, a.centerX} : Abs(e - XVal(jw[1], jw[2])) < U(1)}
YAligned ==
    LET a == GetEdges(SnappedRect)
    IN  {jw \in OtherIdx \X (1 .. 3) :
            \E e \in {a.top, a.bottom, a.centerY} : Abs(e - YVal(jw[1], jw[2])) < U(1)}

(* C22: when snapX is non-null the vertical guides are those of the snapped *)
(* rect, not of the raw one: one guide for every (other item, value v of   *)
(* its left, right, centerX) with v within 1 unit of the snapped rect's    *)
(* left, right or centerX, at position v, hence several guides when        *)
(* several items align; likewise snapY and the horizontal guides.          *)
GuidesOfSnappedRect ==
    snapResult # Null =>
        LET g == snapResult[1].guides
        IN  /\ snapResult[1].snapX # Null =>
                 /\ Cardinality(VGuideIdx) = Cardinality(XAligned)
                 /\ \A jw \in XAligned :
                        Cardinality({i \in VGuideIdx : g[i].position = XVal(jw[1], jw[2])})
                          = Cardinality({kw \in XAligned :
                                            XVal(kw[1], kw[2]) = XVal(jw[1], jw[2])})
            /\ snapResult[1].snapY # Null =>
                 /\ Cardinality(HGuideIdx) = Cardinality(YAligned)
                 /\ \A jw \in YAligned :
                        Cardinality({i \in HGuideIdx : g[i].position = YVal(jw[1], jw[2])})
                          = Cardinality({kw \in YAligned :
                                            YVal(kw[1], kw[2]) = YVal(jw[1], jw[2])})

\* a rect 5.5 units right of two items with the same left edge: it snaps,
\* no value is within 1 unit of the raw rect, and guides of both items
\* are returned
GuidesOfSnappedRectWitness ==
    /\ snapResult # Null
    /\ snapResult[1].snapX # Null
    /\ Abs(snapResult[1].snapX[1] - draggingRect[1].x) = U(5) + 1
    /\ \E jw, kw \in XAligned : jw[1] # kw[1]
    /\ Cardinality(VGuideIdx) >= 2

(* C23: the extent [start, end] of every returned guide is the union, on    *)
(* the perpendicular axis, of the extent of the snapped active rect and of *)
(* the aligned other rect (the smaller start, the larger end), also when   *)
(* the tick snaps on both axes.                                            *)
GuideExtentOfSnappedRect ==
    snapResult # Null =>
        LET g == snapResult[1].guides
            a == GetEdges(SnappedRect)
            Min(p, q) == IF p < q THEN p ELSE q
            Max(p, q) == IF p > q THEN p ELSE q
        IN  /\ \A i \in VGuideIdx : \E jw \in XAligned :
                  LET o == GetEdges(allRects[jw[1]])
                  IN  /\ g[i].position = XVal(jw[1], jw[2])
                      /\ g[i].start = Min(a.top, o.top)
                      /\ g[i].end = Max(a.bottom, o.bottom)
            /\ \A i \in HGuideIdx : \E jw \in YAligned :
                  LET o == GetEdges(allRects[jw[1]])
                  IN  /\ g[i].position = YVal(jw[1], jw[2])
                      /\ g[i].start = Min(a.left, o.left)
                      /\ g[i].end = Max(a.right, o.right)

(* C24: calcSnap returns a vertical guide exactly when snapX is non-null    *)
(* and a horizontal guide exactly when snapY is non-null, and when an axis *)
(* snaps one of its guides lies on the value of the other item that won    *)
(* the snap.                                                               *)
GuidesIffSnap ==
    snapResult # Null =>
        LET g == snapResult[1].guides
        IN  /\ (VGuideIdx # {}) <=> (snapResult[1].snapX # Null)
            /\ (HGuideIdx # {}) <=> (snapResult[1].snapY # Null)
            /\ snapResult[1].snapX # Null =>
                  \E i \in VGuideIdx : g[i].position = XCand(FirstClosest(XDist))[2]
            /\ snapResult[1].snapY # Null =>
                  \E i \in HGuideIdx : g[i].position = YCand(FirstClosest(YDist))[2]

\* a snap on x by the right edge of the active rect and none on y: vertical
\* guides only, one of them on the winning value
GuidesIffSnapWitness ==
    /\ snapResult # Null
    /\ snapResult[1].snapX # Null
    /\ snapResult[1].snapY = Null
    /\ PairOf(FirstClosest(XDist)) \in 4 .. 6
    /\ XDist(FirstClosest(XDist)) > 0
    /\ VGuideIdx # {}
    /\ HGuideIdx = {}

(* C25: a snap moves the active rect by less than the threshold:            *)
(* |snapX - active.x| < 6 and |snapY - active.y| < 6 whenever non-null;    *)
(* so the position a drag stop commits after this tick (the resolved       *)
(* position, rounded) is less than 6.5 units from the raw position on      *)
(* each axis.                                                              *)
SnapMovesLessThanThreshold ==
    snapResult # Null =>
        LET dr == draggingRect[1]
            r == snapResult[1]
            pos == DragStopPos(DragPosOf(r, <<dr.x, dr.y>>))
        IN  /\ r.snapX # Null => Abs(r.snapX[1] - dr.x) < U(SNAP_THRESHOLD)
            /\ r.snapY # Null => Abs(r.snapY[1] - dr.y) < U(SNAP_THRESHOLD)
            /\ Abs(U(pos.x) - dr.x) < U(SNAP_THRESHOLD) + 1
            /\ Abs(U(pos.y) - dr.y) < U(SNAP_THRESHOLD) + 1

\* a snap by 5.5 units on x; the committed x is 5.5 units from the raw one
SnapMovesLessThanThresholdWitness ==
    /\ snapResult # Null
    /\ snapResult[1].snapX # Null
    /\ Abs(snapResult[1].snapX[1] - draggingRect[1].x) = U(5) + 1
    /\ Abs(U(DragStopPos(DragPosOf(snapResult[1],
             <<draggingRect[1].x, draggingRect[1].y>>)).x) - draggingRect[1].x) >= U(5) + 1

----------------------------------------------------------------------------
(* Concurrent uploads                                                      *)

\* the uploads in flight: requests, and responses handleUploadFile has not
\* resumed on yet
UploadsInFlight == {m \in Msgs : m.kind = "upload"}

(* C21: uploads are not mutually exclusive and none of their results is     *)
(* dropped: whatever else is in flight, an upload that succeeds appends    *)
(* exactly the item the server returned to the item list at the moment it  *)
(* resolves, an upload that fails leaves the list unchanged, and nothing   *)
(* else changes the list.                                                  *)
UploadResultsAppended ==
    [][/\ lastOp'.op = "uploadResolve" =>
              \E m \in UploadsInFlight :
                  /\ m.phase = "ok"
                  /\ images' = Append(images, m.img)
                  /\ net' = net (-) SetToBag({m})
       /\ lastOp'.op = "uploadReject" => images' = images
       /\ images' # images => lastOp'.op = "uploadResolve"]_vars

\* two uploads were in flight together and both succeeded; the second one
\* the server stored resolved first, and both items are in the list in the
\* order they resolved
UploadResultsAppendedWitness ==
    /\ Len(images) = 2
    /\ images[1].id > images[2].id
    /\ lastOp.op = "uploadResolve"

(* C29: the uploading indicator is true exactly while at least one upload   *)
(* is in flight: it stays true until the last of overlapping uploads       *)
(* settles, and it is false once all have settled.                         *)
UploadingIffInFlight ==
    uploading <=> (UploadsInFlight # {})

----------------------------------------------------------------------------
(* Commits of a drag or resize                                             *)

GestureOps == {"dragStart", "drag", "dragStop", "resizeStart", "resize", "resizeStop"}
CommitOps == {"dragStop", "resizeStop"}

\* ids that are in no item list of the bounded behaviours
AbsentIds == (1 .. 6) \ Ids(images)

(* C26: a committed position change for item id replaces only x, y, width   *)
(* and height of the item with that id: the ids of the list, their order,  *)
(* every other item and every other field are unchanged; a commit for an   *)
(* id that is not in the list changes nothing; and no step of a drag or    *)
(* resize adds or removes an item.                                         *)
CommitReplacesGeometryOnly ==
    [][/\ lastOp'.op \in CommitOps =>
              LET pos == lastOp'.pos
              IN  /\ Len(images') = Len(images)
                  /\ \A i \in 1 .. Len(images) :
                        IF images[i].id = pos.id
                        THEN images'[i] = [images[i] EXCEPT !.x = pos.x, !.y = pos.y,
                                                            !.width = pos.width,
                                                            !.height = pos.height]
                        ELSE images'[i] = images[i]
       /\ \A id \in AbsentIds :
              PositionChange(images, id, [NoImg EXCEPT !.id = id, !.x = 7, !.y = 7]) = images
       /\ lastOp'.op \in GestureOps =>
              /\ Len(images') = Len(images)
              /\ \A i \in 1 .. Len(images) : images'[i].id = images[i].id]_vars

\* a drag of card 1 was committed next to card 2: card 1 has the committed
\* position, its week and tags, card 2 is as loaded
CommitReplacesGeometryOnlyWitness ==
    /\ lastOp.op = "dragStop"
    /\ Len(images) = 2
    /\ lastOp.pos.id = 1
    /\ images[1] = [id |-> 1, weekStr |-> "2026-W08", x |-> 501, y |-> 400,
                    width |-> 280, height |-> 200, tags |-> "zh"]
    /\ images[2] = [id |-> 2, weekStr |-> "2026-W08", x |-> 100, y |-> 100,
                    width |-> 280, height |-> 200, tags |-> "zh"]

----------------------------------------------------------------------------
(* C27: every committed geometry change is sent to the persistence API      *)
(* unless a later commit of the same item supersedes it: once the debounce *)
(* delay has elapsed (no save is pending), the last committed geometry of  *)
(* every item that was moved has been sent by updateImagePosition; a       *)
(* commit for another item within the delay does not cancel the save.      *)
CommitsEventuallySaved ==
    saveTimer = Null => unsaved = {}

----------------------------------------------------------------------------
(* C28: whenever no week fetch and no upload is in flight, every item of    *)
(* the displayed list belongs to the selected week: no response for a week *)
(* selected earlier, arriving after the navigation or after the response   *)
(* of a newer fetch, is left in the list.                                  *)
DisplayedItemsOfCurrentWeek ==
    (\A m \in Msgs : m.kind \notin {"getWeek", "upload"}) =>
        \A i \in 1 .. Len(images) : images[i].weekStr = currentWeek

----------------------------------------------------------------------------
(* C30: a language toggle only replaces tags: whatever was done to the      *)
(* item list while the retag requests were in flight (an item appended by  *)
(* an upload, a committed drag position, an item removed by delete) is in  *)
(* the list after the re-tagging completes.                                *)
RetagOnlyReplacesTags ==
    [][lastOp'.op = "retagResolve" =>
          /\ Len(images') = Len(images)
          /\ \A i \in 1 .. Len(images) :
                images'[i] = [images[i] EXCEPT !.tags = images'[i].tags]]_vars

====
